---- MODULE Spec2Model ----
(***************************************************************************)
(* The dinner-party scoring engine: the scoring rules, the GameScoring     *)
(* round driver, the rule composer, rule (de)serialization and Person      *)
(* construction.                                                           *)
(*                                                                         *)
(* Strings (guest names, interest names) are sequences of character codes, *)
(* so that Python's whole-string comparison and ord(name[0]) are both      *)
(* computed, not assumed.  A dict is the sequence of its items, in         *)
(* insertion order, each item a record [k |-> key, v |-> value].  An       *)
(* Optional value is a record [some |-> BOOLEAN, val |-> ...].             *)
(***************************************************************************)
EXTENDS Integers, Sequences, FiniteSets, TLC

VARIABLES
    rules,                \* GameScoring.rules; in the composer, the list being built
    scoring_complexity,   \* GameScoring.scoring_complexity
    discussed_interests,  \* GameScoring.discussed_interests (Optional list)
    previous_hosts,       \* GameScoring.previous_hosts (Optional list)
    current_round,        \* GameScoring.current_round
    scores,               \* GameScoring.scores (dict name -> running total)
    pc,                   \* position of the running operation
    people,               \* the guest list passed to the running call
    round_num,            \* loop index of score_all_rounds (1-based)
    round_scores,         \* what the last score_round returned: scores
    notes,                \* what the last score_round returned: metadata
    total,                \* value returned by the last score_all_rounds
    host_log,             \* hosts chosen by the rounds of the running pass
    given,                \* the arguments the constructor was called with
    reused,               \* an earlier score_all_rounds has returned on this instance
    origin,               \* how the instance was made: by the constructor's defaults or from a record
    final_scores,         \* the mapping get_final_scores handed to its caller
    all_interests,        \* dinner_party.all_interests, the roster's interest universe
    remaining_points,     \* random_scoring_rules: the budget left
    call,                 \* random_scoring_rules: its arguments
    record,               \* a serialized GameScoring (the dict to_dict returns)
    loaded,               \* what from_dict made of a record, and what it then scored
    rng_draws,            \* draws from the random module made while loading
    dinner_party,         \* the roster passed to from_dict (Optional)
    interests_arg,        \* Person(name, interests): the mapping passed in
    person,               \* the Person constructed
    party_people,         \* DinnerParty.people, the roster
    selected_set,         \* score_set(selected_set): the names passed in
    set_score,            \* what score_set returned (Optional)
    set_size,             \* DinnerParty.set_size
    stored_scores,        \* DinnerParty.stored_scores
    target_score,         \* DinnerParty.target_score
    statistics            \* what get_score_statistics returned

driverVars == <<rules, scoring_complexity, discussed_interests, previous_hosts,
                current_round, scores, people, round_num, round_scores, notes,
                total, host_log, given, reused, origin, final_scores>>

composeVars == <<all_interests, remaining_points, call>>

serialVars == <<record, loaded, rng_draws, dinner_party>>

personVars == <<interests_arg, person>>

partyVars == <<party_people, selected_set, set_score,
               set_size, stored_scores, target_score, statistics>>

vars == <<driverVars, pc, composeVars, serialVars, personVars, partyVars>>

----------------------------------------------------------------------------
(* Python values *)

Some(x) == [some |-> TRUE, val |-> x]

NoneList == [some |-> FALSE, val |-> <<>>]

InSeq(x, s) == \E i \in 1..Len(s) : s[i] = x

\* str < str : lexicographic on the whole string, a proper prefix is smaller
RECURSIVE StrLess(_, _)
StrLess(a, b) ==
    IF b = <<>> THEN FALSE
    ELSE IF a = <<>> THEN TRUE
    ELSE IF a[1] # b[1] THEN a[1] < b[1]
    ELSE StrLess(Tail(a), Tail(b))

\* ord(name[0])
OrdFirst(name) == name[1]

Item(k, v) == [k |-> k, v |-> v]

Has(d, k) == \E i \in 1..Len(d) : d[i].k = k

\* dict.get(k, dflt)
Get(d, k, dflt) ==
    IF Has(d, k) THEN d[CHOOSE i \in 1..Len(d) : d[i].k = k].v ELSE dflt

\* d[k] = v : a new key goes to the end, an old key keeps its place
Put(d, k, v) ==
    IF Has(d, k)
    THEN [i \in 1..Len(d) |-> IF d[i].k = k THEN Item(k, v) ELSE d[i]]
    ELSE Append(d, Item(k, v))

RECURSIVE SumValues(_)
SumValues(d) == IF d = <<>> THEN 0 ELSE Head(d).v + SumValues(Tail(d))

\* the (person, interest, level) triples in iteration order:
\* for person in people: for interest, level in person.interests.items()
RECURSIVE AllItems(_)
AllItems(ps) ==
    IF ps = <<>> THEN <<>> ELSE Head(ps).interests \o AllItems(Tail(ps))

----------------------------------------------------------------------------
(* Rule values *)

Rule(t, i, p, b, g) ==
    [type |-> t, interest |-> i, points_per_interest |-> p,
     bonus_points |-> b, ignore_previous_interests |-> g]

NoNotes ==
    [has_interest |-> FALSE, interest |-> <<>>,
     has_host |-> FALSE, host |-> <<>>,
     has_niche |-> FALSE, niche_interests |-> <<>>]

InterestNote(i) == [NoNotes EXCEPT !.has_interest = TRUE, !.interest = i]

HostNote(h) == [NoNotes EXCEPT !.has_host = TRUE, !.host = h]

\* what score_round gives back: the returned pair, previous_hosts as the rule
\* left it, and whether the call raised instead of returning
Outcome(sc, nt, ph, r) == [scores |-> sc, notes |-> nt, hosts |-> ph, raised |-> r]

ZeroScores(ps) == [i \in 1..Len(ps) |-> Item(ps[i].name, 0)]

\* key=lambda x: (x[1], -ord(x[0][0]))
InterestKeyLess(x, y) ==
    \/ x.v < y.v
    \/ x.v = y.v /\ (0 - OrdFirst(x.k)) < (0 - OrdFirst(y.k))

\* max(items, key=lambda x: (x[1], -ord(x[0][0]))) : Python's max gives the
\* first item, in iteration order, whose key is maximal
MaxInterest(items) ==
    items[CHOOSE i \in 1..Len(items) :
        /\ \A j \in 1..Len(items) : ~InterestKeyLess(items[i], items[j])
        /\ \A j \in 1..(i - 1) : InterestKeyLess(items[j], items[i])]

\* key=lambda x: (len(x.interests), x.name)
FewestKeyLess(x, y) ==
    \/ Len(x.interests) < Len(y.interests)
    \/ Len(x.interests) = Len(y.interests) /\ StrLess(x.name, y.name)

\* the first of the available hosts as listed, whatever their interests
MinFewest_first_listed(ps) == ps[1]

\* min(available_hosts, key=lambda x: (len(x.interests), x.name))
MinFewest(ps) ==
    ps[CHOOSE i \in 1..Len(ps) :
        /\ \A j \in 1..Len(ps) : ~FewestKeyLess(ps[j], ps[i])
        /\ \A j \in 1..(i - 1) : FewestKeyLess(ps[i], ps[j])]

\* min(available_hosts, key=lambda x: x.name)
MinName(ps) ==
    ps[CHOOSE i \in 1..Len(ps) :
        /\ \A j \in 1..Len(ps) : ~StrLess(ps[j].name, ps[i].name)
        /\ \A j \in 1..(i - 1) : StrLess(ps[i].name, ps[j].name)]

\* AvailableHosts without the filter on previous_hosts
AvailableHosts_unfiltered(ps, ph) ==
    [hosts |-> IF ph.some THEN ph.val ELSE <<>>, available |-> ps]

\* the people who have not hosted yet and previous_hosts as the filter leaves
\* it: None becomes [], and when everybody has hosted the list starts over
AvailableHosts(ps, ph) ==
    LET hosts0 == IF ph.some THEN ph.val ELSE <<>>
        avail0 == SelectSeq(ps, LAMBDA p : ~InSeq(p.name, hosts0))
    IN IF avail0 = <<>>
       THEN [hosts |-> <<>>, available |-> ps]
       ELSE [hosts |-> hosts0, available |-> avail0]

_select_host_from_available(ps, ph) ==
    LET a    == AvailableHosts(ps, ph)
        host == MinFewest(a.available)
    IN [host |-> host, hosts |-> Some(Append(a.hosts, host.name))]

_find_largest_interest(interests) == MaxInterest(interests)

_calculate_scores_for_interest(ps, interest) ==
    [i \in 1..Len(ps) |-> Item(ps[i].name, Get(ps[i].interests, interest, 0))]

\* len(set(person.interests.keys()) & host_interests)
SharedCount(p, host) ==
    Cardinality({i \in 1..Len(p.interests) : Has(host.interests, p.interests[i].k)})

\* set(game_scoring.discussed_interests if game_scoring.discussed_interests else [])
DiscussedSet(di) == IF di.some THEN {di.val[i] : i \in 1..Len(di.val)} ELSE {}

----------------------------------------------------------------------------
(* score_round of each rule variant.  ps: the guests, di: the context's    *)
(* discussed_interests, ph: its previous_hosts.  A call on no guests makes *)
(* min() raise in the host rules.                                          *)

FewestInterestsLargestValueRule_score_round(rule, ps, di, ph) ==
    IF ps = <<>> THEN Outcome(<<>>, NoNotes, ph, TRUE)
    ELSE
    LET sel == _select_host_from_available(ps, ph)
        host == sel.host
    IN IF host.interests = <<>>
       THEN Outcome(ZeroScores(ps), NoNotes, sel.hosts, FALSE)
       ELSE LET chosen_interest == _find_largest_interest(host.interests).k
            IN Outcome(_calculate_scores_for_interest(ps, chosen_interest),
                       [InterestNote(chosen_interest) EXCEPT
                            !.has_host = TRUE, !.host = host.name],
                       sel.hosts, FALSE)

FewestInterestsHostRule_score_round(rule, ps, di, ph) ==
    IF ps = <<>> THEN Outcome(<<>>, NoNotes, ph, TRUE)
    ELSE
    LET a    == AvailableHosts(ps, ph)
        host == MinFewest(a.available)
    IN Outcome([i \in 1..Len(ps) |->
                   Item(ps[i].name, rule.points_per_interest * SharedCount(ps[i], host))],
               HostNote(host.name),
               Some(Append(a.hosts, host.name)), FALSE)

AlphabeticHostInterestRule_score_round(rule, ps, di, ph) ==
    IF ps = <<>> THEN Outcome(<<>>, NoNotes, ph, TRUE)
    ELSE
    LET a    == AvailableHosts(ps, ph)
        host == MinName(a.available)
    IN Outcome([i \in 1..Len(ps) |-> Item(ps[i].name, 2 * SharedCount(ps[i], host))],
               HostNote(host.name),
               Some(Append(a.hosts, host.name)), FALSE)

\* interest_totals[interest] += level, over all people and their interests
RECURSIVE InterestTotals(_, _)
InterestTotals(items, acc) ==
    IF items = <<>> THEN acc
    ELSE InterestTotals(Tail(items),
                        Put(acc, Head(items).k, Get(acc, Head(items).k, 0) + Head(items).v))

\* key=lambda x: (x[1], x[0])
NicheKeyLess(x, y) == x.v < y.v \/ (x.v = y.v /\ StrLess(x.k, y.k))

\* the names of sorted(interest_totals.items(), key=...) without the [:3]
NicheNames_unbounded(totals) ==
    LET n == Len(totals)
        rank(i) == Cardinality({j \in 1..n : NicheKeyLess(totals[j], totals[i])})
    IN [r \in 1..n |-> totals[CHOOSE i \in 1..n : rank(i) = r - 1].k]

\* the names of sorted(interest_totals.items(), key=...)[:3]
NicheNames(totals) ==
    LET n == Len(totals)
        rank(i) == Cardinality({j \in 1..n : NicheKeyLess(totals[j], totals[i])})
        m == IF n < 3 THEN n ELSE 3
    IN [r \in 1..m |-> totals[CHOOSE i \in 1..n : rank(i) = r - 1].k]

NicheInterestsRule_score_round(rule, ps, di, ph) ==
    LET niche == NicheNames(InterestTotals(AllItems(ps), <<>>))
    IN Outcome([i \in 1..Len(ps) |->
                   Item(ps[i].name,
                        rule.bonus_points *
                        Cardinality({r \in 1..Len(niche) : Has(ps[i].interests, niche[r])}))],
               [NoNotes EXCEPT !.has_niche = TRUE, !.niche_interests = niche],
               ph, FALSE)

MaxLevelOf(interests) ==
    CHOOSE m \in {interests[i].v : i \in 1..Len(interests)} :
        \A i \in 1..Len(interests) : interests[i].v <= m

MinLevelOf(interests) ==
    CHOOSE m \in {interests[i].v : i \in 1..Len(interests)} :
        \A i \in 1..Len(interests) : interests[i].v >= m

\* score_round without "if not person.interests": max() of no values raises
WellRoundedInterestsRule_score_round_unguarded(rule, ps, di, ph) ==
    IF \E i \in 1..Len(ps) : ps[i].interests = <<>>
    THEN Outcome(<<>>, NoNotes, ph, TRUE)
    ELSE Outcome([i \in 1..Len(ps) |->
                     Item(ps[i].name,
                          LET gap == MaxLevelOf(ps[i].interests) - MinLevelOf(ps[i].interests)
                          IN IF 10 - gap > 0 THEN 10 - gap ELSE 0)],
                 NoNotes, ph, FALSE)

WellRoundedInterestsRule_score_round(rule, ps, di, ph) ==
    Outcome([i \in 1..Len(ps) |->
                Item(ps[i].name,
                     IF ps[i].interests = <<>> THEN 0
                     ELSE LET gap == MaxLevelOf(ps[i].interests) - MinLevelOf(ps[i].interests)
                          IN IF 10 - gap > 0 THEN 10 - gap ELSE 0)],
            NoNotes, ph, FALSE)

\* interest_values: each undiscussed interest with the largest level seen, a
\* key entering the dict the first time a level above 0 is seen for it
RECURSIVE InterestValues(_, _, _)
InterestValues(items, discussed, acc) ==
    IF items = <<>> THEN acc
    ELSE LET it == Head(items)
         IN InterestValues(Tail(items), discussed,
                IF it.k \notin discussed /\ it.v > Get(acc, it.k, 0)
                THEN Put(acc, it.k, it.v) ELSE acc)

LargestInterestValueRule_score_round(rule, ps, di, ph) ==
    LET interest_values == InterestValues(AllItems(ps), DiscussedSet(di), <<>>)
    IN IF interest_values = <<>>
       THEN Outcome(ZeroScores(ps), NoNotes, ph, FALSE)
       ELSE LET chosen_interest == MaxInterest(interest_values).k
            IN Outcome([i \in 1..Len(ps) |->
                           Item(ps[i].name, Get(ps[i].interests, chosen_interest, 0))],
                       InterestNote(chosen_interest), ph, FALSE)

\* a guest's top interest taken over all the guest's interests, discussed or not
TopUndiscussed_any(p, discussed) ==
    IF p.interests # <<>> THEN MaxInterest(p.interests).v ELSE 0

\* one guest's score in an EachPersonSpeaks round
TopUndiscussed(p, discussed) ==
    LET available_interests == SelectSeq(p.interests, LAMBDA it : it.k \notin discussed)
    IN IF available_interests # <<>> THEN MaxInterest(available_interests).v ELSE 0

EachPersonSpeaksRule_score_round(rule, ps, di, ph) ==
    Outcome([i \in 1..Len(ps) |-> Item(ps[i].name, TopUndiscussed(ps[i], DiscussedSet(di)))],
            NoNotes, ph, FALSE)

SingleInterestRule_score_round(rule, ps, di, ph) ==
    Outcome([i \in 1..Len(ps) |-> Item(ps[i].name, Get(ps[i].interests, rule.interest, 0))],
            InterestNote(rule.interest), ph, FALSE)

\* interest_counts without the test on discussed_interests
RECURSIVE InterestCounts_counts_discussed(_, _, _, _)
InterestCounts_counts_discussed(items, ignore, di, acc) ==
    IF items = <<>> THEN acc
    ELSE LET it == Head(items)
         IN InterestCounts_counts_discussed(Tail(items), ignore, di,
                IF it.v > 0 THEN Put(acc, it.k, Get(acc, it.k, 0) + 1) ELSE acc)

\* interest_counts: how many people hold each countable interest
RECURSIVE InterestCounts(_, _, _, _)
InterestCounts(items, ignore, di, acc) ==
    IF items = <<>> THEN acc
    ELSE LET it == Head(items)
         IN InterestCounts(Tail(items), ignore, di,
                IF it.v > 0 /\ (~ignore \/ ~InSeq(it.k, di.val))
                THEN Put(acc, it.k, Get(acc, it.k, 0) + 1) ELSE acc)

\* "interest not in game_scoring.discussed_interests" raises on None; it is
\* evaluated when ignore_previous_interests is set and some level is above 0
MostCommonInterestRule_score_round(rule, ps, di, ph) ==
    IF /\ rule.ignore_previous_interests /\ ~di.some
       /\ \E i \in 1..Len(AllItems(ps)) : AllItems(ps)[i].v > 0
    THEN Outcome(<<>>, NoNotes, ph, TRUE)
    ELSE
    LET interest_counts ==
            InterestCounts(AllItems(ps), rule.ignore_previous_interests, di, <<>>)
    IN IF interest_counts = <<>>
       THEN Outcome(ZeroScores(ps), NoNotes, ph, FALSE)
       ELSE LET most_common_interest == MaxInterest(interest_counts).k
            IN Outcome([i \in 1..Len(ps) |->
                           Item(ps[i].name, Get(ps[i].interests, most_common_interest, 0))],
                       InterestNote(most_common_interest), ph, FALSE)

\* rule.score_round(people, self) by the rule's class; the subclass
\* MostCommonInterestExceptPrevious inherits MostCommonInterestRule's
score_round(rule, ps, di, ph) ==
    CASE rule.type = "FewestInterestsLargestValueRule" ->
            FewestInterestsLargestValueRule_score_round(rule, ps, di, ph)
      [] rule.type = "FewestInterestsHostRule" ->
            FewestInterestsHostRule_score_round(rule, ps, di, ph)
      [] rule.type = "NicheInterestsRule" ->
            NicheInterestsRule_score_round(rule, ps, di, ph)
      [] rule.type = "WellRoundedInterestsRule" ->
            WellRoundedInterestsRule_score_round(rule, ps, di, ph)
      [] rule.type = "AlphabeticHostInterestRule" ->
            AlphabeticHostInterestRule_score_round(rule, ps, di, ph)
      [] rule.type = "LargestInterestValueRule" ->
            LargestInterestValueRule_score_round(rule, ps, di, ph)
      [] rule.type = "EachPersonSpeaksRule" ->
            EachPersonSpeaksRule_score_round(rule, ps, di, ph)
      [] rule.type = "SingleInterestRule" ->
            SingleInterestRule_score_round(rule, ps, di, ph)
      [] rule.type \in {"MostCommonInterestRule", "MostCommonInterestExceptPrevious"} ->
            MostCommonInterestRule_score_round(rule, ps, di, ph)

\* get_cr() of each class
get_cr(type) ==
    CASE type \in {"EachPersonSpeaksRule", "SingleInterestRule",
                   "WellRoundedInterestsRule"} -> 1
      [] type = "NicheInterestsRule" -> 2
      [] type \in {"AlphabeticHostInterestRule", "LargestInterestValueRule",
                   "MostCommonInterestRule", "MostCommonInterestExceptPrevious"} -> 3
      [] type \in {"FewestInterestsHostRule", "FewestInterestsLargestValueRule"} -> 4

----------------------------------------------------------------------------
(* GameScoring: the round driver *)

\* self.scores[name] = score: the round's score in place of the running total
RECURSIVE Accumulate_overwrites(_, _)
Accumulate_overwrites(acc, rs) ==
    IF rs = <<>> THEN acc
    ELSE Accumulate_overwrites(Put(acc, Head(rs).k, Head(rs).v), Tail(rs))

\* self.scores[name] += score, a name not seen before starting from 0
RECURSIVE Accumulate(_, _)
Accumulate(acc, rs) ==
    IF rs = <<>> THEN acc
    ELSE Accumulate(Put(acc, Head(rs).k, Get(acc, Head(rs).k, 0) + Head(rs).v), Tail(rs))

\* reset leaving discussed_interests as it is
reset_keeps_discussed ==
    [discussed_interests |-> IF discussed_interests.some THEN discussed_interests ELSE Some(<<>>),
     previous_hosts |-> Some(<<>>), scores |-> <<>>, current_round |-> 0]

\* reset leaving current_round as it is
reset_keeps_round ==
    [discussed_interests |-> Some(<<>>), previous_hosts |-> Some(<<>>),
     scores |-> <<>>, current_round |-> current_round]

\* GameScoring.reset: the values the four mutable fields are set to
reset ==
    [discussed_interests |-> Some(<<>>), previous_hosts |-> Some(<<>>),
     scores |-> <<>>, current_round |-> 0]

\* the loop body without self.discussed_interests.append(notes["interest"])
RoundStep_drops_interest(rule, ps, c) ==
    LET o == score_round(rule, ps, c.discussed_interests, c.previous_hosts)
    IN [discussed_interests |-> c.discussed_interests,
        previous_hosts |->
            IF ~o.raised /\ o.notes.has_host
            THEN Some(Append(o.hosts.val, o.notes.host))
            ELSE o.hosts,
        scores |-> IF o.raised THEN c.scores ELSE Accumulate(c.scores, o.scores),
        out |-> o, people |-> ps, rule |-> rule]

\* the loop body with a round that takes the interest it reports away from
\* the guests' mappings
RoundStep_consumes_interest(rule, ps, c) ==
    LET o == score_round(rule, ps, c.discussed_interests, c.previous_hosts)
    IN [discussed_interests |->
            IF ~o.raised /\ o.notes.has_interest
            THEN Some(Append(c.discussed_interests.val, o.notes.interest))
            ELSE c.discussed_interests,
        previous_hosts |->
            IF ~o.raised /\ o.notes.has_host
            THEN Some(Append(o.hosts.val, o.notes.host))
            ELSE o.hosts,
        scores |-> IF o.raised THEN c.scores ELSE Accumulate(c.scores, o.scores),
        out |-> o,
        people |-> IF ~o.raised /\ o.notes.has_interest
                   THEN [i \in 1..Len(ps) |->
                            [ps[i] EXCEPT !.interests =
                                SelectSeq(@, LAMBDA it : it.k # o.notes.interest)]]
                   ELSE ps,
        rule |-> rule]

\* one iteration of the loop of score_all_rounds on the context fields c:
\* the rule scores, then the driver records the notes and adds the scores;
\* neither assigns to a guest or to an attribute of the rule, so the guests
\* and the rule come out as they went in
RoundStep(rule, ps, c) ==
    LET o == score_round(rule, ps, c.discussed_interests, c.previous_hosts)
    IN IF o.raised
       THEN [discussed_interests |-> c.discussed_interests, previous_hosts |-> o.hosts,
             scores |-> c.scores, out |-> o, people |-> ps, rule |-> rule]
       ELSE [discussed_interests |->
                 IF o.notes.has_interest
                 THEN Some(Append(c.discussed_interests.val, o.notes.interest))
                 ELSE c.discussed_interests,
             previous_hosts |->
                 IF o.notes.has_host
                 THEN Some(Append(o.hosts.val, o.notes.host))
                 ELSE o.hosts,
             scores |-> Accumulate(c.scores, o.scores),
             out |-> o, people |-> ps, rule |-> rule]

HostRuleTypes ==
    {"AlphabeticHostInterestRule", "FewestInterestsHostRule",
     "FewestInterestsLargestValueRule"}

\* sum(rule.get_cr() for rule in self.rules)
RECURSIVE CRSum(_)
CRSum(rs) == IF rs = <<>> THEN 0 ELSE get_cr(Head(rs).type) + CRSum(Tail(rs))

\* __post_init__ raising on a mismatch
post_init_raises(rs, declared) ==
    IF CRSum(rs) # declared THEN "error" ELSE "ok"

\* GameScoring.__post_init__: a mismatch is printed, nothing is raised
post_init(rs, declared) ==
    IF CRSum(rs) # declared THEN "warned" ELSE "ok"

----------------------------------------------------------------------------
(* The inputs of the driver's specification *)

\* characters: 1 = "a", 2 = "b", 3 = "c"
Acting  == <<1, 1>>
Art     == <<1, 3>>
Cooking == <<2, 1>>
Chess   == <<3>>

InterestUniverse == {Acting, Art, Cooking}

\* the roster the driver's guests are taken from: a tie between two interests
\* with the same initial, a single interest, two initials, no interest at all;
\* two guests with as many interests, a name that is a prefix of another
Roster ==
    { [name |-> <<1>>,    interests |-> <<Item(Art, 2), Item(Acting, 2)>>],
      [name |-> <<1, 2>>, interests |-> <<Item(Cooking, 1)>>],
      [name |-> <<2>>,    interests |-> <<Item(Acting, 1), Item(Cooking, 2)>>],
      [name |-> <<3>>,    interests |-> <<>>] }

MaxGuests == 2

MaxRules == 2

SeqsUpTo(S, n) == UNION {[1..m -> S] : m \in 0..n}

DistinctNames(ps) == \A i, j \in 1..Len(ps) : ps[i].name = ps[j].name => i = j

GuestLists == {ps \in SeqsUpTo(Roster, MaxGuests) : DistinctNames(ps)}

EachPersonSpeaksRule == Rule("EachPersonSpeaksRule", <<>>, 0, 0, FALSE)
SingleInterestRule(i) == Rule("SingleInterestRule", i, 0, 0, FALSE)
WellRoundedInterestsRule == Rule("WellRoundedInterestsRule", <<>>, 0, 0, FALSE)
NicheInterestsRule(b) == Rule("NicheInterestsRule", <<>>, 0, b, FALSE)
AlphabeticHostInterestRule == Rule("AlphabeticHostInterestRule", <<>>, 0, 0, FALSE)
LargestInterestValueRule == Rule("LargestInterestValueRule", <<>>, 0, 0, FALSE)
MostCommonInterestRule(g) == Rule("MostCommonInterestRule", <<>>, 0, 0, g)
MostCommonInterestExceptPrevious(g) == Rule("MostCommonInterestExceptPrevious", <<>>, 0, 0, g)
FewestInterestsHostRule(p) == Rule("FewestInterestsHostRule", <<>>, p, 0, FALSE)
FewestInterestsLargestValueRule == Rule("FewestInterestsLargestValueRule", <<>>, 0, 0, FALSE)

\* random.randint(2, 5) and random.randint(3, 7)
MinPointsPerInterest == 2
MaxPointsPerInterest == 5
MinBonusPoints == 3
MaxBonusPoints == 7

\* one rule of every variant, the randomized parameters at their lowest
DriverRules ==
    { EachPersonSpeaksRule, SingleInterestRule(Acting), WellRoundedInterestsRule,
      NicheInterestsRule(MinBonusPoints), AlphabeticHostInterestRule,
      LargestInterestValueRule, MostCommonInterestRule(FALSE),
      MostCommonInterestExceptPrevious(TRUE),
      FewestInterestsHostRule(MinPointsPerInterest), FewestInterestsLargestValueRule }

DriverHostRules == {r \in DriverRules : r.type \in HostRuleTypes}

\* default_scoring_rules and one_of_each_scoring_rule: (declared complexity, rules)
default_scoring_rules ==
    [scoring_complexity |-> 25,
     rules |-> [i \in 1..3 |-> MostCommonInterestExceptPrevious(TRUE)]]

one_of_each_scoring_rule ==
    [scoring_complexity |-> 9,
     rules |-> << EachPersonSpeaksRule, MostCommonInterestRule(FALSE),
                  SingleInterestRule(Art), MostCommonInterestExceptPrevious(TRUE),
                  LargestInterestValueRule, AlphabeticHostInterestRule,
                  FewestInterestsHostRule(MaxPointsPerInterest),
                  FewestInterestsLargestValueRule, WellRoundedInterestsRule,
                  NicheInterestsRule(MaxBonusPoints) >>]

\* the constructor's arguments: any short rule list, and host rules for two
\* full turns of the guests, with the matching complexity or one that does
\* not match; and the two fixed configurations
DriverConfigs ==
    UNION {{[scoring_complexity |-> c, rules |-> rs] : c \in {CRSum(rs), 10}} :
              rs \in SeqsUpTo(DriverRules, MaxRules)
                     \cup SeqsUpTo(DriverHostRules, 2 * MaxGuests)}
    \cup {default_scoring_rules, one_of_each_scoring_rule}

\* the context fields a new instance starts with: the dataclass defaults, or
\* what GameScoring.from_dict read from the record
DefaultContext ==
    [discussed_interests |-> NoneList, previous_hosts |-> NoneList,
     scores |-> <<>>, current_round |-> 0]

DriverContexts ==
    {DefaultContext} \cup
    [discussed_interests : {NoneList, Some(<<Acting>>)},
     previous_hosts : {NoneList, Some(<<(<<1>>)>>)},
     scores : {<<>>, <<Item(<<1>>, 5)>>},
     current_round : {0, 1}]

NoTotal == [some |-> FALSE, val |-> 0]

NoRecord == [scoring_complexity |-> 0, rules |-> <<>>,
             discussed_interests |-> NoneList, previous_hosts |-> NoneList,
             current_round |-> 0, scores |-> <<>>]

NoRoster == [some |-> FALSE, all_interests |-> <<>>]

\* nothing loaded yet: which from_dict ran (kind), the record it was given
\* (data) and whether that is the record to_dict wrote (intact), the exception
\* it ended in (error), the instance it returned, and what the loaded
\* instance or rule returned when it scored (total, out)
NoInstance == [kind |-> "none", data |-> NoRecord, intact |-> FALSE, error |-> "none",
               scoring_complexity |-> 0, rules |-> <<>>,
               discussed_interests |-> NoneList, previous_hosts |-> NoneList,
               current_round |-> 0, scores |-> <<>>,
               total |-> NoTotal, out |-> Outcome(<<>>, NoNotes, NoneList, FALSE)]

NoPerson == [name |-> <<>>, interests |-> <<>>]

\* the variables of the operations a specification does not run
ComposeUnused ==
    /\ all_interests = <<>>
    /\ remaining_points = 0
    /\ call = [points |-> 0, target_number_rules |-> 0, weighted |-> FALSE]

SerialUnused ==
    /\ record = NoRecord
    /\ loaded = NoInstance
    /\ rng_draws = 0
    /\ dinner_party = NoRoster

PersonUnused ==
    /\ interests_arg = <<>>
    /\ person = NoPerson

\* a / b, kept as the pair of the two integers
Ratio(a, b) == [num |-> a, den |-> b]

NoStatistics ==
    [percentile |-> Ratio(0, 1), ranking |-> 0, percent_of_max |-> Ratio(0, 1),
     normalized_score |-> Ratio(0, 1), rank_percentile |-> Ratio(0, 1)]

PartyUnused ==
    /\ party_people = <<>>
    /\ selected_set = <<>>
    /\ set_score = NoTotal
    /\ set_size = 0
    /\ stored_scores = <<>>
    /\ target_score = 0
    /\ statistics = NoStatistics

\* nothing handed out: whether a caller holds a mapping, whether it is the
\* object self.scores, whether the caller has written to it, and its items
NoFinalScores == [held |-> FALSE, same_object |-> FALSE, modified |-> FALSE, val |-> <<>>]

DriverUnused ==
    /\ rules = <<>>
    /\ scoring_complexity = 0
    /\ discussed_interests = NoneList
    /\ previous_hosts = NoneList
    /\ current_round = 0
    /\ scores = <<>>
    /\ people = <<>>
    /\ round_num = 0
    /\ round_scores = <<>>
    /\ notes = NoNotes
    /\ total = [some |-> FALSE, val |-> 0]
    /\ host_log = <<>>
    /\ given = [scoring_complexity |-> 0, rules |-> <<>>]
    /\ reused = FALSE
    /\ origin = "none"
    /\ final_scores = NoFinalScores


\* GameScoring(...): the fields hold the arguments, __post_init__ is pending
Init ==
    /\ \E cfg \in DriverConfigs :
          /\ rules = cfg.rules
          /\ scoring_complexity = cfg.scoring_complexity
          /\ given = cfg
    /\ \E c \in DriverContexts :
          /\ discussed_interests = c.discussed_interests
          /\ previous_hosts = c.previous_hosts
          /\ scores = c.scores
          /\ current_round = c.current_round
          /\ origin = IF c = DefaultContext THEN "constructed" ELSE "loaded"
    /\ final_scores = NoFinalScores
    /\ pc = "new"
    /\ people = <<>>
    /\ round_num = 0
    /\ round_scores = <<>>
    /\ notes = NoNotes
    /\ total = NoTotal
    /\ host_log = <<>>
    /\ reused = FALSE
    /\ ComposeUnused /\ SerialUnused /\ PersonUnused /\ PartyUnused

\* __post_init__ ends: the instance exists
Construct ==
    /\ pc = "new"
    /\ pc' = IF post_init(rules, scoring_complexity) = "error" THEN "failed" ELSE "idle"
    /\ UNCHANGED <<rules, scoring_complexity, discussed_interests, previous_hosts,
                   current_round, scores, people, round_num, round_scores, notes,
                   total, host_log, given, reused, origin, final_scores,
                   composeVars, serialVars, personVars, partyVars>>

\* score_all_rounds(ps) up to the loop: self.reset()
StartScore(ps) ==
    /\ pc \in {"idle", "raised"}
    /\ discussed_interests' = reset.discussed_interests
    /\ previous_hosts' = reset.previous_hosts
    /\ scores' = reset.scores
    /\ current_round' = reset.current_round
    /\ people' = ps
    /\ round_num' = 1
    /\ round_scores' = <<>>
    /\ notes' = NoNotes
    /\ total' = NoTotal
    /\ host_log' = <<>>
    /\ pc' = "scoring"
    /\ reused' = (reused \/ total.some)
    /\ final_scores' = NoFinalScores
    /\ UNCHANGED <<rules, scoring_complexity, given, origin,
                   composeVars, serialVars, personVars, partyVars>>

\* one iteration of the loop; an exception of the rule leaves score_all_rounds
\* at once, with the context as it is
ScoreRound ==
    /\ pc = "scoring"
    /\ round_num <= Len(rules)
    /\ LET rule == rules[round_num]
           n == RoundStep(rule, people,
                          [discussed_interests |-> discussed_interests,
                           previous_hosts |-> previous_hosts, scores |-> scores])
       IN /\ discussed_interests' = n.discussed_interests
          /\ previous_hosts' = n.previous_hosts
          /\ scores' = n.scores
          /\ round_scores' = n.out.scores
          /\ notes' = n.out.notes
          /\ people' = n.people
          /\ rules' = [rules EXCEPT ![round_num] = n.rule]
          /\ IF n.out.raised
             THEN /\ pc' = "raised"
                  /\ UNCHANGED <<round_num, host_log>>
             ELSE /\ pc' = "scoring"
                  /\ round_num' = round_num + 1
                  /\ host_log' = IF rule.type \in HostRuleTypes
                                 THEN Append(host_log, n.out.hosts.val[Len(n.out.hosts.val)])
                                 ELSE host_log
    /\ UNCHANGED <<scoring_complexity, current_round, total, given, reused,
                   origin, final_scores,
                   composeVars, serialVars, personVars, partyVars>>

\* after the loop: total_score = sum(self.scores.values()); self.reset(); return
FinishScore ==
    /\ pc = "scoring"
    /\ round_num > Len(rules)
    /\ total' = Some(SumValues(scores))
    /\ discussed_interests' = reset.discussed_interests
    /\ previous_hosts' = reset.previous_hosts
    /\ scores' = reset.scores
    /\ current_round' = reset.current_round
    /\ round_scores' = <<>>
    /\ notes' = NoNotes
    /\ host_log' = <<>>
    /\ pc' = "idle"
    /\ UNCHANGED <<rules, scoring_complexity, people, round_num, given, reused,
                   origin, final_scores,
                   composeVars, serialVars, personVars, partyVars>>

\* return self.scores, the dict itself
get_final_scores_no_copy(sc) ==
    [held |-> TRUE, same_object |-> TRUE, modified |-> FALSE, val |-> sc]

\* return self.scores.copy(): a new dict with the same items
get_final_scores(sc) ==
    [held |-> TRUE, same_object |-> FALSE, modified |-> FALSE, val |-> sc]

\* get_final_scores() between two calls of score_all_rounds
GetFinalScores ==
    /\ pc = "idle"
    /\ ~final_scores.held
    /\ final_scores' = get_final_scores(scores)
    /\ UNCHANGED <<rules, scoring_complexity, discussed_interests, previous_hosts,
                   current_round, scores, people, round_num, round_scores, notes,
                   total, host_log, given, reused, origin, pc,
                   composeVars, serialVars, personVars, partyVars>>

\* the caller writes an entry into the mapping it was handed; the entry is
\* in self.scores too when the two are one dict
ModifyReturned ==
    /\ pc = "idle"
    /\ final_scores.held /\ ~final_scores.modified
    /\ LET written == Put(final_scores.val, <<1>>, 1)
       IN /\ final_scores' = [final_scores EXCEPT !.modified = TRUE, !.val = written]
          /\ scores' = IF final_scores.same_object THEN written ELSE scores
    /\ UNCHANGED <<rules, scoring_complexity, discussed_interests, previous_hosts,
                   current_round, people, round_num, round_scores, notes,
                   total, host_log, given, reused, origin, pc,
                   composeVars, serialVars, personVars, partyVars>>

Next ==
    \/ Construct
    \/ \E ps \in GuestLists : StartScore(ps)
    \/ ScoreRound
    \/ FinishScore
    \/ GetFinalScores
    \/ ModifyReturned

Spec == Init /\ [][Next]_vars

----------------------------------------------------------------------------
(* Claims about the driver, checked under Spec *)

\* the context as the claims describe it after a reset
CleanContext ==
    [discussed_interests |-> Some(<<>>), previous_hosts |-> Some(<<>>), scores |-> <<>>]

\* the total of a pass over rules rs[i..] on guests ps that starts in context c
RECURSIVE PassFrom(_, _, _, _)
PassFrom(rs, i, ps, c) ==
    IF i > Len(rs) THEN Some(SumValues(c.scores))
    ELSE LET n == RoundStep(rs[i], ps, c)
         IN IF n.out.raised THEN NoTotal
            ELSE PassFrom(rs, i + 1, ps,
                          [discussed_interests |-> n.discussed_interests,
                           previous_hosts |-> n.previous_hosts, scores |-> n.scores])

Returned == pc = "idle" /\ total.some

\* C1: the total score_all_rounds returns for a guest list is the total of a
\* pass that starts from the empty context, whatever the context fields held
\* when the instance was created or loaded and whatever passes ran before: it
\* is a function of the rules and the guest list alone.
C1_TotalIndependentOfHistory ==
    Returned => total = PassFrom(rules, 1, people, CleanContext)

\* a second or later pass has returned a positive total under rules of which
\* one reads discussed_interests and one reads previous_hosts
C1_Witness ==
    /\ Returned /\ reused /\ total.val > 0
    /\ \E i \in 1..Len(rules) : rules[i].type = "MostCommonInterestExceptPrevious"
    /\ \E i \in 1..Len(rules) : rules[i].type \in HostRuleTypes

\* C2: whenever score_all_rounds has returned, discussed_interests and
\* previous_hosts are empty lists, scores is empty and current_round is 0.
C2_ResetOnReturn ==
    Returned =>
        /\ discussed_interests = Some(<<>>)
        /\ previous_hosts = Some(<<>>)
        /\ scores = <<>>
        /\ current_round = 0

\* a pass whose rounds reported an interest and a host and gave points has returned
C2_Witness ==
    /\ Returned /\ total.val > 0 /\ Len(people) = 2
    /\ \E i \in 1..Len(rules) : rules[i].type = "SingleInterestRule"
    /\ \E i \in 1..Len(rules) : rules[i].type = "AlphabeticHostInterestRule"

\* C4: during a pass over n guests the hosts chosen by the host-assigning
\* rounds 1..n are pairwise distinct, and so are those of rounds n+1..2n (and
\* of every later block of n rounds).
C4_HostRotation ==
    pc = "scoring" =>
        \A i, j \in 1..Len(host_log) :
            (i < j /\ (i - 1) \div Len(people) = (j - 1) \div Len(people))
                => host_log[i] # host_log[j]

\* two guests, four host rounds of at least two different rules: both turns done
C4_Witness ==
    /\ pc = "scoring" /\ Len(people) = 2 /\ Len(host_log) = 4
    /\ \E i, j \in 1..Len(rules) : rules[i].type # rules[j].type
    /\ host_log[1] = host_log[3]

C13_DiscussedFollowsNotes ==
    [][/\ (pc' = "scoring" /\ round_num' = 1) => discussed_interests' = Some(<<>>)
       /\ (pc = "scoring" /\ pc' = "scoring" /\ round_num' = round_num + 1) =>
             discussed_interests' =
                 IF notes'.has_interest
                 THEN Some(Append(discussed_interests.val, notes'.interest))
                 ELSE discussed_interests]_vars

\* all ten rounds of one_of_each_scoring_rule have run on two guests: some
\* rounds reported an interest, some did not
C13_Witness ==
    /\ pc = "scoring" /\ given = one_of_each_scoring_rule
    /\ round_num = Len(rules) + 1 /\ Len(people) = 2
    /\ Len(discussed_interests.val) >= 3
    /\ Len(discussed_interests.val) < Len(rules)

\* C14: during a pass, while fewer host rounds have run than there are
\* guests, previous_hosts is the sequence of the hosts chosen so far, each
\* name once.
C14_HostsListedOnce ==
    (pc = "scoring" /\ Len(host_log) < Len(people)) => previous_hosts = Some(host_log)

\* the sum of the per-guest scores the rules rs[i..] return on guests ps, the
\* pass being in context c
RECURSIVE RoundTotals(_, _, _, _)
RoundTotals(rs, i, ps, c) ==
    IF i > Len(rs) THEN 0
    ELSE LET n == RoundStep(rs[i], ps, c)
         IN SumValues(n.out.scores)
            + RoundTotals(rs, i + 1, ps,
                          [discussed_interests |-> n.discussed_interests,
                           previous_hosts |-> n.previous_hosts, scores |-> n.scores])

\* C15: the total score_all_rounds returns is the sum, over the rules in
\* order, of the sum of the per-guest scores the rule returned in its round;
\* 0 for an empty rule list.
C15_TotalIsSumOfRounds ==
    Returned =>
        /\ total.val = RoundTotals(rules, 1, people, CleanContext)
        /\ rules = <<>> => total.val = 0

\* two rounds that both gave points to two guests, one guest scoring only in
\* the second, have been added up
C15_Witness ==
    /\ Returned /\ Len(rules) = 2 /\ Len(people) = 2
    /\ rules[1].type = "SingleInterestRule" /\ rules[2].type = "NicheInterestsRule"
    /\ total.val > 6

Perms(n) == {f \in [1..n -> 1..n] : \A i, j \in 1..n : f[i] = f[j] => i = j}

\* the sequences with the elements of s in another order
Rearranged(s) == {[i \in 1..Len(s) |-> s[f[i]]] : f \in Perms(Len(s))}

\* guest p with the interests stored in another order
Reordered(p) == {[name |-> p.name, interests |-> d] : d \in Rearranged(p.interests)}

\* the same guests listed in another order, each with the interests stored
\* in another order
Rearrangements(ps) ==
    UNION {{qs \in [1..Len(ps) -> UNION {Reordered(ps[i]) : i \in 1..Len(ps)}] :
               \A i \in 1..Len(ps) : qs[i] \in Reordered(ps[f[i]])} :
           f \in Perms(Len(ps))}

\* C28: the total score_all_rounds returned is the total of a pass of the
\* same rules over the same guests listed in any other order and with their
\* interests stored in any other order.
C28_TotalIndependentOfOrder ==
    Returned =>
        \A qs \in Rearrangements(people) : PassFrom(rules, 1, qs, CleanContext) = total

\* C29: between calls of score_all_rounds, on an instance made with the
\* constructor's defaults (as the composer makes it) or after a call has
\* returned, the context's scores are empty, the mapping get_final_scores
\* hands out is empty, and what the caller writes into that mapping does not
\* reach the context's scores.
C29_FinalScoresEmptyCopy ==
    (pc = "idle" /\ (origin = "constructed" \/ total.some)) =>
        /\ scores = <<>>
        /\ (final_scores.held /\ ~final_scores.modified) => final_scores.val = <<>>

\* after a pass that gave points has returned, the caller has written into
\* the mapping it was handed
C29_Witness ==
    /\ Returned /\ total.val > 0
    /\ final_scores.held /\ final_scores.modified /\ final_scores.val # <<>>
    /\ scores = <<>>

----------------------------------------------------------------------------
(* One score_round call on its own: SpecRound draws the rule, the guests and *)
(* the context fields the rule reads, and the call is the only action.       *)

MaxLevel == 2

Levels == 1..MaxLevel

RoundItems == {Item(k, v) : k \in InterestUniverse, v \in Levels}

\* mappings with a level that is not positive: Person.__post_init__ drops
\* only None, so a guest can hold an interest at level 0 or below
NonPositiveInterests ==
    {<<Item(Art, 0)>>, <<Item(Cooking, 1), Item(Art, 0)>>, <<Item(Acting, 0 - 1)>>}

\* mappings with an interest outside InterestUniverse, so that two guests can
\* hold four interests between them
FourthInterests ==
    {<<Item(Cooking, 1), Item(Chess, 1)>>, <<Item(Chess, 2), Item(Art, 1)>>}

\* every mapping of at most two interests with levels in Levels, in every
\* insertion order, the mappings with a level that is not positive, and
\* those with a fourth interest
RoundInterests ==
    {<<>>} \cup {<<x>> : x \in RoundItems}
           \cup {d \in [1..2 -> RoundItems] : d[1].k # d[2].k}
           \cup NonPositiveInterests \cup FourthInterests

RoundPersons(n) == {[name |-> n, interests |-> d] : d \in RoundInterests}

\* one guest, or two guests in either order, one name a prefix of the other
RoundGuestLists ==
    {<<p>> : p \in RoundPersons(<<1>>)}
    \cup {<<p, q>> : p \in RoundPersons(<<1>>), q \in RoundPersons(<<1, 2>>)}
    \cup {<<q, p>> : p \in RoundPersons(<<1>>), q \in RoundPersons(<<1, 2>>)}

\* every variant, the randomized parameters at both ends of their ranges
RoundRules ==
    {EachPersonSpeaksRule, WellRoundedInterestsRule, AlphabeticHostInterestRule,
     LargestInterestValueRule, FewestInterestsLargestValueRule}
    \cup {SingleInterestRule(i) : i \in InterestUniverse}
    \cup {NicheInterestsRule(b) : b \in {MinBonusPoints, MaxBonusPoints}}
    \cup {FewestInterestsHostRule(p) : p \in {MinPointsPerInterest, MaxPointsPerInterest}}
    \cup {MostCommonInterestRule(g) : g \in BOOLEAN}
    \cup {MostCommonInterestExceptPrevious(g) : g \in BOOLEAN}

\* discussed_interests and previous_hosts as a new instance has them (None)
\* or as earlier rounds may have left them
RoundContexts ==
    [discussed_interests : {NoneList} \cup {Some(d) : d \in {<<>>, <<Art>>, <<Acting, Cooking>>}},
     previous_hosts : {NoneList} \cup {Some(h) : h \in {<<>>, <<(<<1>>), (<<1>>)>>}}]

InitRound ==
    /\ \E r \in RoundRules : rules = <<r>>
    /\ people \in RoundGuestLists
    /\ \E c \in RoundContexts :
          /\ discussed_interests = c.discussed_interests
          /\ previous_hosts = c.previous_hosts
    /\ pc = "ready"
    /\ scoring_complexity = 0
    /\ current_round = 0
    /\ scores = <<>>
    /\ round_num = 1
    /\ round_scores = <<>>
    /\ notes = NoNotes
    /\ total = NoTotal
    /\ host_log = <<>>
    /\ given = [scoring_complexity |-> 0, rules |-> <<>>]
    /\ reused = FALSE
    /\ origin = "constructed"
    /\ final_scores = NoFinalScores
    /\ ComposeUnused /\ SerialUnused /\ PersonUnused /\ PartyUnused

\* rule.score_round(people, game_scoring): what it returns, and previous_hosts
\* as the rule leaves it
ScoreOnce ==
    /\ pc = "ready"
    /\ LET o == score_round(rules[1], people, discussed_interests, previous_hosts)
       IN /\ round_scores' = o.scores
          /\ notes' = o.notes
          /\ previous_hosts' = o.hosts
          /\ pc' = IF o.raised THEN "raised" ELSE "scored"
    /\ UNCHANGED <<rules, scoring_complexity, discussed_interests, current_round,
                   scores, people, round_num, total, host_log, given, reused,
                   origin, final_scores,
                   composeVars, serialVars, personVars, partyVars>>

NextRound == ScoreOnce

SpecRound == InitRound /\ [][NextRound]_vars

----------------------------------------------------------------------------
(* Claims about one round, checked under SpecRound *)

HeldInterests(ps) == {AllItems(ps)[i].k : i \in 1..Len(AllItems(ps))}

\* the number of guests holding interest i at a level above 0
Holders(ps, i) == Cardinality({g \in 1..Len(ps) : Get(ps[g].interests, i, 0) > 0})

\* the highest level any guest holds interest i at
TopLevel(ps, i) ==
    CHOOSE m \in {Get(ps[g].interests, i, 0) : g \in 1..Len(ps)} :
        \A g \in 1..Len(ps) : Get(ps[g].interests, i, 0) <= m

PersonNamed(ps, n) == ps[CHOOSE g \in 1..Len(ps) : ps[g].name = n]

\* the interests a rule type chooses among, and the value it maximizes
Candidates(rule, ps, di, nt) ==
    CASE rule.type \in {"MostCommonInterestRule", "MostCommonInterestExceptPrevious"} ->
            {i \in HeldInterests(ps) :
                Holders(ps, i) > 0 /\ (rule.ignore_previous_interests => ~InSeq(i, di.val))}
      [] rule.type = "LargestInterestValueRule" ->
            {i \in HeldInterests(ps) : ~InSeq(i, di.val)}
      [] rule.type = "FewestInterestsLargestValueRule" ->
            HeldInterests(<<PersonNamed(ps, nt.host)>>)

TieValue(rule, ps, nt, i) ==
    CASE rule.type \in {"MostCommonInterestRule", "MostCommonInterestExceptPrevious"} ->
            Holders(ps, i)
      [] rule.type = "LargestInterestValueRule" -> TopLevel(ps, i)
      [] rule.type = "FewestInterestsLargestValueRule" ->
            Get(PersonNamed(ps, nt.host).interests, i, 0)

SelectsByMaximum(rule) ==
    rule.type \in {"MostCommonInterestRule", "MostCommonInterestExceptPrevious",
                   "LargestInterestValueRule", "FewestInterestsLargestValueRule"}

\* C3: when a rule that selects an interest by maximum reports an interest, no
\* candidate that ties with it on the maximized value has a lexicographically
\* smaller whole name.
C3_AlphabeticalTieBreak ==
    (pc = "scored" /\ SelectsByMaximum(rules[1]) /\ notes.has_interest) =>
        \A c \in Candidates(rules[1], people, discussed_interests, notes) :
            TieValue(rules[1], people, notes, c)
                = TieValue(rules[1], people, notes, notes.interest)
            => ~StrLess(c, notes.interest)

\* every guest of the list has no interests
NoInterestsAtAll(ps) == \A i \in 1..Len(ps) : ps[i].interests = <<>>

\* C12: for guests who all have no interests, and any context, score_round of
\* every variant returns, giving every guest 0 (MostCommonInterest and
\* LargestInterestValue with empty metadata), and a pass over any rule
\* sequence returns 0.
C12_NoInterestsScoreZero ==
    (pc \in {"scored", "raised"} /\ NoInterestsAtAll(people)) =>
        /\ pc = "scored"
        /\ round_scores = ZeroScores(people)
        /\ rules[1].type \in {"MostCommonInterestRule", "MostCommonInterestExceptPrevious",
                              "LargestInterestValueRule"} => notes = NoNotes
        /\ \A rs \in SeqsUpTo(RoundRules, MaxRules) :
              PassFrom(rs, 1, people, CleanContext) = Some(0)

\* MostCommonInterestExceptPrevious has scored two guests without interests
\* on an instance whose discussed_interests is still None
C12_Witness ==
    /\ pc = "scored" /\ Len(people) = 2 /\ NoInterestsAtAll(people)
    /\ rules[1].type = "MostCommonInterestExceptPrevious"
    /\ rules[1].ignore_previous_interests
    /\ ~discussed_interests.some
    /\ round_scores = ZeroScores(people)

\* the levels of the interests of guest p that are not in the list di
UndiscussedLevels(p, di) ==
    {p.interests[j].v : j \in {n \in 1..Len(p.interests) :
                                  ~(di.some /\ InSeq(p.interests[n].k, di.val))}}

HighestOrZero(S) == IF S = {} THEN 0 ELSE CHOOSE m \in S : \A l \in S : l <= m

\* C19: an EachPersonSpeaks round returns, gives each guest the highest level
\* among the guest's interests that are not discussed (0 if there is none),
\* returns empty metadata and leaves discussed_interests and previous_hosts as
\* they were, in the call itself and in the driver's loop body around it.
C19_EachSpeaksTopUndiscussed ==
    /\ [][(pc = "ready" /\ rules[1].type = "EachPersonSpeaksRule") =>
            /\ pc' = "scored"
            /\ Len(round_scores') = Len(people)
            /\ \A i \in 1..Len(people) :
                  round_scores'[i] =
                      Item(people[i].name,
                           HighestOrZero(UndiscussedLevels(people[i], discussed_interests)))
            /\ notes' = NoNotes
            /\ discussed_interests' = discussed_interests
            /\ previous_hosts' = previous_hosts]_vars
    /\ []((pc = "ready" /\ rules[1].type = "EachPersonSpeaksRule") =>
            LET c == [discussed_interests |-> discussed_interests,
                      previous_hosts |-> previous_hosts, scores |-> <<>>]
                n == RoundStep(rules[1], people, c)
            IN /\ n.discussed_interests = discussed_interests
               /\ n.previous_hosts = previous_hosts)

\* an EachPersonSpeaks round was scored in which one guest's top interest is
\* discussed and a lower one is not, and the other guest has nothing left
C19_Witness ==
    /\ pc = "scored" /\ rules[1].type = "EachPersonSpeaksRule"
    /\ discussed_interests = Some(<<Art>>)
    /\ Len(people) = 2
    /\ people[1].interests = <<Item(Art, 2), Item(Cooking, 1)>>
    /\ people[2].interests = <<Item(Art, 1)>>
    /\ round_scores = <<Item(people[1].name, 1), Item(people[2].name, 0)>>
    /\ notes = NoNotes

IgnoresPrevious(rule) ==
    /\ rule.type \in {"MostCommonInterestRule", "MostCommonInterestExceptPrevious"}
    /\ rule.ignore_previous_interests

\* the interests some guest of ps holds at a level above 0 that are not in d
Undiscussed(ps, d) == {i \in HeldInterests(ps) : Holders(ps, i) > 0 /\ ~InSeq(i, d)}

\* C20 (under Spec): a round of a pass whose rule is a MostCommonInterest with
\* ignore_previous set returns; if some held interest is not yet discussed, it
\* reports one of those, held by at least as many guests as any other of them,
\* each guest scores their level in it, and it is appended to
\* discussed_interests; if every held interest is discussed, all guests score
\* 0, the metadata is empty and discussed_interests stays as it was.
C20_IgnorePreviousSkipsDiscussed ==
    [][(pc = "scoring" /\ round_num <= Len(rules) /\ IgnoresPrevious(rules[round_num])) =>
         LET left == Undiscussed(people, discussed_interests.val)
         IN /\ pc' = "scoring"
            /\ Len(round_scores') = Len(people)
            /\ IF left = {}
               THEN /\ \A i \in 1..Len(people) : round_scores'[i] = Item(people[i].name, 0)
                    /\ notes' = NoNotes
                    /\ discussed_interests' = discussed_interests
               ELSE /\ notes'.has_interest /\ ~notes'.has_host
                    /\ notes'.interest \in left
                    /\ \A j \in left : Holders(people, j) <= Holders(people, notes'.interest)
                    /\ \A i \in 1..Len(people) :
                          round_scores'[i] =
                              Item(people[i].name, Get(people[i].interests, notes'.interest, 0))
                    /\ discussed_interests' =
                          Some(Append(discussed_interests.val, notes'.interest))]_vars

\* three MostCommonInterestExceptPrevious rounds on one guest with two
\* interests: the second round took the interest the first had left, and the
\* third found every held interest discussed
C20_Witness ==
    /\ pc = "scoring" /\ given = default_scoring_rules /\ round_num = 4
    /\ Len(people) = 1 /\ people[1].interests = <<Item(Art, 2), Item(Acting, 2)>>
    /\ discussed_interests = Some(<<Art, Acting>>)
    /\ round_scores = <<Item(people[1].name, 0)>>
    /\ notes = NoNotes

\* the highest level any guest of ps holds an interest at that is not in di
TopUndiscussedLevel(ps, di) ==
    HighestOrZero(UNION {UndiscussedLevels(ps[g], di) : g \in 1..Len(ps)})

\* C21: a LargestInterestValue round returns; if some guest holds an interest
\* that is not discussed, the round reports an undiscussed interest that some
\* guest holds at the highest level of all undiscussed (guest, interest)
\* pairs, and each guest scores their level in it (0 if absent); if no guest
\* holds an undiscussed interest, all score 0 and nothing is reported.
C21_LargestUndiscussedLevel ==
    [][(pc = "ready" /\ rules[1].type = "LargestInterestValueRule") =>
         LET held == UNION {UndiscussedLevels(people[g], discussed_interests) :
                               g \in 1..Len(people)}
         IN /\ pc' = "scored"
            /\ Len(round_scores') = Len(people)
            /\ IF held = {}
               THEN /\ \A i \in 1..Len(people) : round_scores'[i] = Item(people[i].name, 0)
                    /\ notes' = NoNotes
               ELSE /\ notes'.has_interest /\ ~notes'.has_host
                    /\ ~(discussed_interests.some /\ InSeq(notes'.interest, discussed_interests.val))
                    /\ \E g \in 1..Len(people) :
                          /\ Has(people[g].interests, notes'.interest)
                          /\ Get(people[g].interests, notes'.interest, 0) =
                                TopUndiscussedLevel(people, discussed_interests)
                    /\ \A i \in 1..Len(people) :
                          round_scores'[i] =
                              Item(people[i].name, Get(people[i].interests, notes'.interest, 0))]_vars

\* the sum over the guests of ps of their level in interest i
RECURSIVE TotalLevel(_, _)
TotalLevel(ps, i) ==
    IF ps = <<>> THEN 0 ELSE Get(Head(ps).interests, i, 0) + TotalLevel(Tail(ps), i)

\* interest i comes before interest j by (total level, whole name)
NicherThan(ps, i, j) ==
    \/ TotalLevel(ps, i) < TotalLevel(ps, j)
    \/ TotalLevel(ps, i) = TotalLevel(ps, j) /\ StrLess(i, j)

\* C22: a NicheInterests round returns the names of min(3, number of held
\* interests) distinct held interests under "niche_interests", each of them
\* before every held interest left out by (total level over the guests, whole
\* name); each guest scores bonus_points for each of them the guest holds; no
\* interest and no host is reported, and the call and the driver's loop body
\* around it leave discussed_interests and previous_hosts as they were.
C22_NicheLowestThree ==
    /\ [][(pc = "ready" /\ rules[1].type = "NicheInterestsRule") =>
            LET held  == HeldInterests(people)
                names == notes'.niche_interests
                niche == {names[r] : r \in 1..Len(names)}
            IN /\ pc' = "scored"
               /\ notes'.has_niche /\ ~notes'.has_interest /\ ~notes'.has_host
               /\ Len(names) = (IF Cardinality(held) < 3 THEN Cardinality(held) ELSE 3)
               /\ Cardinality(niche) = Len(names)
               /\ niche \subseteq held
               /\ \A i \in niche : \A j \in held \ niche : NicherThan(people, i, j)
               /\ Len(round_scores') = Len(people)
               /\ \A g \in 1..Len(people) :
                     round_scores'[g] =
                         Item(people[g].name,
                              rules[1].bonus_points *
                              Cardinality({i \in niche : Has(people[g].interests, i)}))
               /\ discussed_interests' = discussed_interests
               /\ previous_hosts' = previous_hosts]_vars
    /\ []((pc = "ready" /\ rules[1].type = "NicheInterestsRule") =>
            LET c == [discussed_interests |-> discussed_interests,
                      previous_hosts |-> previous_hosts, scores |-> <<>>]
                n == RoundStep(rules[1], people, c)
            IN /\ n.discussed_interests = discussed_interests
               /\ n.previous_hosts = previous_hosts)

\* a NicheInterests round over four held interests of equal total: three
\* were named and the one left out is the last by name
C22_Witness ==
    /\ pc = "scored" /\ rules[1] = NicheInterestsRule(MaxBonusPoints)
    /\ Len(people) = 2
    /\ people[1].interests = <<Item(Acting, 1), Item(Art, 1)>>
    /\ people[2].interests = <<Item(Cooking, 1), Item(Chess, 1)>>
    /\ notes.has_niche /\ Len(notes.niche_interests) = 3
    /\ ~InSeq(Chess, notes.niche_interests)
    /\ round_scores = <<Item(people[1].name, 2 * MaxBonusPoints),
                        Item(people[2].name, MaxBonusPoints)>>
    /\ discussed_interests = Some(<<>>)

\* the guests a host is taken from: the positions of the guests of ps whose
\* name is not in the list ph, or every position when there is no such guest
HostPool(ps, ph) ==
    LET fresh == {g \in 1..Len(ps) : ~(ph.some /\ InSeq(ps[g].name, ph.val))}
    IN IF fresh = {} THEN 1..Len(ps) ELSE fresh

\* the number of interest names guest p has in common with guest h
SharedNames(p, h) ==
    Cardinality({p.interests[i].k : i \in 1..Len(p.interests)}
                \cap {h.interests[i].k : i \in 1..Len(h.interests)})

\* C23: in an AlphabeticHostInterest round on some guests, the reported host
\* is the guest of the smallest whole name among those who have not hosted
\* (among all when all have), every other guest scores 2 points per interest
\* name shared with the host, and the host scores nothing for their own
\* interests.
C23_HostScoresNothing ==
    [][(pc = "ready" /\ rules[1].type = "AlphabeticHostInterestRule" /\ people # <<>>) =>
         /\ pc' = "scored"
         /\ notes'.has_host
         /\ \E h \in HostPool(people, previous_hosts) :
               /\ notes'.host = people[h].name
               /\ \A g \in HostPool(people, previous_hosts) :
                     ~StrLess(people[g].name, people[h].name)
               /\ Len(round_scores') = Len(people)
               /\ \A g \in 1..Len(people) :
                     round_scores'[g] =
                         Item(people[g].name,
                              IF g = h THEN 0 ELSE 2 * SharedNames(people[g], people[h]))]_vars

\* guest h is the one with the fewest interests in the pool, the smallest
\* whole name among those with as few
FewestInPool(ps, pool, h) ==
    /\ h \in pool
    /\ \A g \in pool :
          \/ Len(ps[h].interests) < Len(ps[g].interests)
          \/ /\ Len(ps[h].interests) = Len(ps[g].interests)
             /\ ~StrLess(ps[g].name, ps[h].name)

\* C24: in a FewestInterestsHost round on some guests, the metadata reports
\* exactly one host, the guest with the fewest interests among those who have
\* not hosted (among all when all have), the smallest whole name winning a
\* tie; every guest scores points_per_interest, a value in 2..5 that the round
\* leaves alone, for every interest name shared with the host.
C24_FewestInterestsHost ==
    [][(pc = "ready" /\ rules[1].type = "FewestInterestsHostRule" /\ people # <<>>) =>
         /\ pc' = "scored"
         /\ rules' = rules
         /\ rules[1].points_per_interest \in MinPointsPerInterest..MaxPointsPerInterest
         /\ \E h \in 1..Len(people) :
               /\ FewestInPool(people, HostPool(people, previous_hosts), h)
               /\ notes' = HostNote(people[h].name)
               /\ Len(round_scores') = Len(people)
               /\ \A g \in 1..Len(people) :
                     round_scores'[g] =
                         Item(people[g].name,
                              rules[1].points_per_interest *
                              SharedNames(people[g], people[h]))]_vars

\* a FewestInterestsHost round on two guests with two interests each, the
\* guest with the longer name listed first: the shorter name hosted
C24_Witness ==
    /\ pc = "scored" /\ rules[1] = FewestInterestsHostRule(MaxPointsPerInterest)
    /\ Len(people) = 2
    /\ people[1].name = <<1, 2>> /\ people[2].name = <<1>>
    /\ Len(people[1].interests) = 2 /\ Len(people[2].interests) = 2
    /\ notes = HostNote(<<1>>)
    /\ round_scores = <<Item(<<1, 2>>, MaxPointsPerInterest),
                        Item(<<1>>, 2 * MaxPointsPerInterest)>>

\* the context fields of the state, as the driver's loop body takes them
HereContext ==
    [discussed_interests |-> discussed_interests,
     previous_hosts |-> previous_hosts, scores |-> <<>>]

\* C25: a FewestInterestsLargestValue round on some guests reports the host a
\* FewestInterestsHost round reports on the same guests and previous_hosts,
\* and a topic that is an interest of that host at the host's highest level;
\* every guest scores their level in the topic; and the driver's loop body
\* leaves previous_hosts as it does around a FewestInterestsHost round.
C25_SameHostAsFewestInterestsHost ==
    [][(pc = "ready" /\ rules[1].type = "FewestInterestsLargestValueRule" /\ people # <<>>) =>
         LET other == FewestInterestsHostRule(MinPointsPerInterest)
             f == score_round(other, people, discussed_interests, previous_hosts)
         IN /\ pc' = "scored"
            /\ notes'.has_host /\ notes'.host = f.notes.host
            /\ notes'.has_interest
            /\ \E h \in 1..Len(people) :
                  /\ people[h].name = notes'.host
                  /\ Has(people[h].interests, notes'.interest)
                  /\ \A i \in 1..Len(people[h].interests) :
                        people[h].interests[i].v <= Get(people[h].interests, notes'.interest, 0)
            /\ Len(round_scores') = Len(people)
            /\ \A g \in 1..Len(people) :
                  round_scores'[g] =
                      Item(people[g].name, Get(people[g].interests, notes'.interest, 0))
            /\ RoundStep(rules[1], people, HereContext).previous_hosts =
                  RoundStep(other, people, HereContext).previous_hosts]_vars

----------------------------------------------------------------------------
(* random_scoring_rules: the composer *)

ALL_RULES ==
    << "EachPersonSpeaksRule", "MostCommonInterestRule", "SingleInterestRule",
       "MostCommonInterestExceptPrevious", "LargestInterestValueRule",
       "AlphabeticHostInterestRule", "FewestInterestsHostRule",
       "FewestInterestsLargestValueRule", "WellRoundedInterestsRule",
       "NicheInterestsRule" >>

\* possible_rules without the budget filter
possible_rules_any_cost(remaining, n_rules) ==
    SelectSeq(ALL_RULES,
              LAMBDA t : ~(n_rules = 0 /\ t = "MostCommonInterestExceptPrevious"))

\* possible_rules without the filter applied while the list is empty
possible_rules_any_first(remaining, n_rules) ==
    SelectSeq(ALL_RULES, LAMBDA t : get_cr(t) <= remaining)

\* possible_rules: the classes that fit the budget, the first rule never being
\* MostCommonInterestExceptPrevious
possible_rules(remaining, n_rules) ==
    SelectSeq(ALL_RULES,
              LAMBDA t : /\ get_cr(t) <= remaining
                         /\ ~(n_rules = 0 /\ t = "MostCommonInterestExceptPrevious"))

Abs(x) == IF x < 0 THEN 0 - x ELSE x

MaxCR(possible) ==
    CHOOSE m \in {get_cr(possible[i]) : i \in 1..Len(possible)} :
        \A i \in 1..Len(possible) : get_cr(possible[i]) <= m

\* the weight of a class of rating cr, as the fraction num/den:
\* 1 / (abs(cr - ideal_points_per_rule) + 1), with ideal = remaining_points /
\* remaining_rules, or the largest affordable rating once the target number of
\* rules is reached; squared by the weighting exponent (a fraction's square
\* is zero only if the fraction is), or 1 when the exponent is None
Weight(cr, remaining, remaining_rules, possible, weighted) ==
    IF ~weighted THEN [num |-> 1, den |-> 1]
    ELSE IF remaining_rules > 0
    THEN [num |-> remaining_rules * remaining_rules,
          den |-> (Abs(cr * remaining_rules - remaining) + remaining_rules)
                  * (Abs(cr * remaining_rules - remaining) + remaining_rules)]
    ELSE [num |-> 1,
          den |-> (Abs(cr - MaxCR(possible)) + 1) * (Abs(cr - MaxCR(possible)) + 1)]

\* random.choices(possible_rules, weights=weights, k=1)[0]: any class whose
\* weight is not zero
Drawable(possible, remaining, remaining_rules, weighted) ==
    {possible[i] : i \in {j \in 1..Len(possible) :
        Weight(get_cr(possible[j]), remaining, remaining_rules, possible, weighted).num > 0}}

\* cls(dinner_party): the rules the constructor of a class can give, its random
\* draws being free; SingleInterestRule draws from all_interests, and
\* random.choice raises on an empty list (then there is no rule)
Constructed(t, universe) ==
    CASE t = "SingleInterestRule" ->
            {SingleInterestRule(universe[i]) : i \in 1..Len(universe)}
      [] t = "FewestInterestsHostRule" ->
            {FewestInterestsHostRule(p) : p \in MinPointsPerInterest..MaxPointsPerInterest}
      [] t = "NicheInterestsRule" ->
            {NicheInterestsRule(b) : b \in MinBonusPoints..MaxBonusPoints}
      [] t = "MostCommonInterestRule" -> {MostCommonInterestRule(FALSE)}
      [] t = "MostCommonInterestExceptPrevious" -> {MostCommonInterestExceptPrevious(TRUE)}
      [] OTHER -> {Rule(t, <<>>, 0, 0, FALSE)}

MaxTarget == 5

\* the arguments: a target from 0, the default number of rules or none, the
\* default weighting exponent or None; a roster with or without interests
ComposeCalls ==
    [points : 0..MaxTarget, target_number_rules : {0, 3}, weighted : BOOLEAN]

InitCompose ==
    /\ call \in ComposeCalls
    /\ all_interests \in {<<>>, <<Art>>}
    /\ remaining_points = call.points
    /\ rules = <<>>
    /\ pc = "composing"
    /\ scoring_complexity = 0
    /\ discussed_interests = NoneList
    /\ previous_hosts = NoneList
    /\ current_round = 0
    /\ scores = <<>>
    /\ people = <<>>
    /\ round_num = 0
    /\ round_scores = <<>>
    /\ notes = NoNotes
    /\ total = NoTotal
    /\ host_log = <<>>
    /\ given = [scoring_complexity |-> 0, rules |-> <<>>]
    /\ reused = FALSE
    /\ origin = "constructed"
    /\ final_scores = NoFinalScores
    /\ SerialUnused /\ PersonUnused /\ PartyUnused

\* one iteration of "while remaining_points > 0"
ComposeStep ==
    /\ pc = "composing"
    /\ remaining_points > 0
    /\ LET possible == possible_rules(remaining_points, Len(rules))
           remaining_rules == call.target_number_rules - Len(rules)
       IN IF possible = <<>>
          THEN /\ pc' = "built"
               /\ UNCHANGED <<rules, remaining_points>>
          ELSE \E t \in Drawable(possible, remaining_points, remaining_rules, call.weighted) :
                  IF Constructed(t, all_interests) = {}
                  THEN /\ pc' = "raised"
                       /\ UNCHANGED <<rules, remaining_points>>
                  ELSE \E chosen_rule \in Constructed(t, all_interests) :
                          /\ rules' = Append(rules, chosen_rule)
                          /\ remaining_points' = remaining_points - get_cr(chosen_rule.type)
                          /\ pc' = "composing"
    /\ UNCHANGED <<scoring_complexity, discussed_interests, previous_hosts, current_round,
                   scores, people, round_num, round_scores, notes, total, host_log,
                   given, reused, origin, final_scores, all_interests, call,
                   serialVars, personVars, partyVars>>

\* the loop is left: return GameScoring(scoring_complexity=points, rules=rules)
ComposeReturn ==
    /\ IF pc = "composing" THEN remaining_points <= 0 ELSE pc = "built"
    /\ scoring_complexity' = call.points
    /\ given' = [scoring_complexity |-> call.points, rules |-> rules]
    /\ pc' = IF post_init(rules, call.points) = "error" THEN "failed" ELSE "composed"
    /\ UNCHANGED <<rules, discussed_interests, previous_hosts, current_round,
                   scores, people, round_num, round_scores, notes, total, host_log,
                   reused, origin, final_scores,
                   composeVars, serialVars, personVars, partyVars>>

NextCompose == ComposeStep \/ ComposeReturn

SpecCompose == InitCompose /\ [][NextCompose]_vars

\* the call runs on: a step that can be taken is taken
SpecComposeFair == SpecCompose /\ WF_vars(NextCompose)

----------------------------------------------------------------------------
(* Claims about the composer, checked under SpecCompose *)

\* C5: the remaining budget is never negative, and the complexity ratings of
\* the rules random_scoring_rules returns add up to exactly the target.
C5_BudgetExact ==
    /\ remaining_points >= 0
    /\ pc = "composed" => CRSum(rules) = call.points

\* the largest target is met by a returned list of several rules, one of them
\* of rating 4
C5_Witness ==
    /\ pc = "composed" /\ call.points = MaxTarget /\ CRSum(rules) = MaxTarget
    /\ Len(rules) >= 2
    /\ \E i \in 1..Len(rules) : get_cr(rules[i].type) = 4

\* C16: in the list random_scoring_rules builds, and so in the one it
\* returns, the first rule is never MostCommonInterestExceptPrevious, and each
\* rule's rating is at most the budget that was left when it was drawn (the
\* target less the ratings of the rules before it).
C16_FirstRuleAndBudget ==
    /\ Len(rules) >= 1 => rules[1].type # "MostCommonInterestExceptPrevious"
    /\ \A k \in 1..Len(rules) :
          get_cr(rules[k].type) <= call.points - CRSum(SubSeq(rules, 1, k - 1))

\* a returned list in which MostCommonInterestExceptPrevious comes second and
\* uses up the budget
C16_Witness ==
    /\ pc = "composed" /\ Len(rules) = 2
    /\ rules[2].type = "MostCommonInterestExceptPrevious"
    /\ get_cr(rules[2].type) = call.points - get_cr(rules[1].type)

\* the loop of random_scoring_rules is over: it returned or raised
ComposeOver == pc \in {"composed", "failed", "raised"}

\* C17: random_scoring_rules terminates; each iteration lowers the remaining
\* budget by at least 1, so there are at most target iterations; and the loop
\* ends only when the remaining budget is 0 or no candidate rule fits.
C17_LoopEndsOnBudget ==
    /\ <>ComposeOver
    /\ [](Len(rules) <= call.points)
    /\ [][(pc = "composing" /\ pc' = "composing") =>
             remaining_points' <= remaining_points - 1]_vars
    /\ [][(pc = "composing" /\ pc' # "composing") =>
             \/ remaining_points = 0
             \/ possible_rules(remaining_points, Len(rules)) = <<>>]_vars

\* C27: random_scoring_rules never ends in an exception of a rule's
\* constructor, whatever the roster's all_interests, the empty list included.
C27_ComposeNeverRaises ==
    pc # "raised" /\ (all_interests = <<>> => pc \in {"composing", "built", "composed"})

----------------------------------------------------------------------------
(* to_dict / from_dict: rules and GameScoring through their records *)

\* a rule's record; a key the record does not hold reads as the default here
\* ("" / 0 / FALSE), has_type tells whether the key "type" is there
RuleRecord(ht, t, i, p, b, g) ==
    [has_type |-> ht, type |-> t, interest |-> i, points_per_interest |-> p,
     bonus_points |-> b, ignore_previous_interests |-> g]

\* rule.to_dict(): the type and the variant's own parameter, nothing else
rule_to_dict(r) ==
    CASE r.type = "SingleInterestRule" ->
            RuleRecord(TRUE, r.type, r.interest, 0, 0, FALSE)
      [] r.type = "FewestInterestsHostRule" ->
            RuleRecord(TRUE, r.type, <<>>, r.points_per_interest, 0, FALSE)
      [] r.type = "NicheInterestsRule" ->
            RuleRecord(TRUE, r.type, <<>>, 0, r.bonus_points, FALSE)
      [] r.type \in {"MostCommonInterestRule", "MostCommonInterestExceptPrevious"} ->
            RuleRecord(TRUE, r.type, <<>>, 0, 0, r.ignore_previous_interests)
      [] OTHER -> RuleRecord(TRUE, r.type, <<>>, 0, 0, FALSE)

\* X.from_dict after instance = cls(dinner_party): the attribute of the
\* variant is set from the record, the variants without one return the instance
from_dict_assign(inst, data) ==
    CASE inst.type = "SingleInterestRule" -> [inst EXCEPT !.interest = data.interest]
      [] inst.type = "FewestInterestsHostRule" ->
            [inst EXCEPT !.points_per_interest = data.points_per_interest]
      [] inst.type = "NicheInterestsRule" ->
            [inst EXCEPT !.bonus_points = data.bonus_points]
      [] inst.type \in {"MostCommonInterestRule", "MostCommonInterestExceptPrevious"} ->
            [inst EXCEPT !.ignore_previous_interests = data.ignore_previous_interests]
      [] OTHER -> inst

\* the draws cls(dinner_party) takes from the random module
ConstructorDraws(t) ==
    IF t \in {"SingleInterestRule", "FewestInterestsHostRule", "NicheInterestsRule"}
    THEN 1 ELSE 0

RegisteredTypes == {ALL_RULES[i] : i \in 1..Len(ALL_RULES)}

\* scoring_rule_from_dict(data, dinner_party=dp): the exception it ends in or
\* the rules it can return, and the draws it took.  The type is looked up in
\* the if/elif chain; the variant's from_dict calls cls(dinner_party), whose
\* constructor reads dinner_party.all_interests for SingleInterestRule
scoring_rule_from_dict(data, dp) ==
    IF ~data.has_type \/ data.type \notin RegisteredTypes
    THEN [error |-> "ValueError", rules |-> {}, draws |-> 0]
    ELSE IF data.type = "SingleInterestRule" /\ ~dp.some
    THEN [error |-> "AttributeError", rules |-> {}, draws |-> 0]
    ELSE IF Constructed(data.type, dp.all_interests) = {}
    THEN [error |-> "IndexError", rules |-> {}, draws |-> 0]
    ELSE [error |-> "none",
          rules |-> {from_dict_assign(inst, data) :
                        inst \in Constructed(data.type, dp.all_interests)},
          draws |-> ConstructorDraws(data.type)]

\* the list comprehension with an entry that fails left out of the list
RECURSIVE LoadRules_skipping(_, _)
LoadRules_skipping(recs, dp) ==
    IF recs = <<>> THEN [error |-> "none", rules |-> {<<>>}, draws |-> 0]
    ELSE LET h == scoring_rule_from_dict(Head(recs), dp)
             t == LoadRules_skipping(Tail(recs), dp)
         IN IF h.error # "none" THEN t
            ELSE [error |-> "none",
                  rules |-> {<<r>> \o rs : r \in h.rules, rs \in t.rules},
                  draws |-> h.draws + t.draws]

\* [scoring_rule_from_dict(rule_data, dinner_party=dinner_party) for rule_data
\* in data['rules']]: the first exception ends the comprehension
RECURSIVE LoadRules(_, _)
LoadRules(recs, dp) ==
    IF recs = <<>> THEN [error |-> "none", rules |-> {<<>>}, draws |-> 0]
    ELSE LET h == scoring_rule_from_dict(Head(recs), dp)
         IN IF h.error # "none" THEN h
            ELSE LET t == LoadRules(Tail(recs), dp)
                 IN IF t.error # "none"
                    THEN [error |-> t.error, rules |-> {}, draws |-> h.draws + t.draws]
                    ELSE [error |-> "none",
                          rules |-> {<<r>> \o rs : r \in h.rules, rs \in t.rules},
                          draws |-> h.draws + t.draws]

\* GameScoring.to_dict
GameScoring_to_dict ==
    [scoring_complexity |-> scoring_complexity,
     rules |-> [i \in 1..Len(rules) |-> rule_to_dict(rules[i])],
     discussed_interests |-> discussed_interests,
     previous_hosts |-> previous_hosts,
     current_round |-> current_round,
     scores |-> scores]

\* every variant with every value its parameter can hold
SerialRules ==
    {EachPersonSpeaksRule, WellRoundedInterestsRule, AlphabeticHostInterestRule,
     LargestInterestValueRule, FewestInterestsLargestValueRule}
    \cup {SingleInterestRule(i) : i \in InterestUniverse}
    \cup {NicheInterestsRule(b) : b \in MinBonusPoints..MaxBonusPoints}
    \cup {FewestInterestsHostRule(p) : p \in MinPointsPerInterest..MaxPointsPerInterest}
    \cup {MostCommonInterestRule(g) : g \in BOOLEAN}
    \cup {MostCommonInterestExceptPrevious(g) : g \in BOOLEAN}

MaxSerialRules == 2

\* the roster handed to from_dict: none (the default of scoring_rule_from_dict),
\* one without an interest universe (as DinnerParty.from_dict builds it), one
\* with a universe
SerialRosters ==
    {NoRoster, [some |-> TRUE, all_interests |-> <<>>],
     [some |-> TRUE, all_interests |-> <<Art, Cooking>>]}

\* a record that went through other hands: the type of one entry is a name
\* that is not registered, or the key is gone
ForeignRecords(recs) ==
    {[recs EXCEPT ![i] = [@ EXCEPT !.has_type = ht, !.type = IF ht THEN "PotluckRule" ELSE ""]] :
        i \in 1..Len(recs), ht \in BOOLEAN}

\* an instance at rest: fresh from the constructor, or after a pass
InitSerial ==
    /\ rules \in SeqsUpTo(SerialRules, MaxSerialRules)
    /\ scoring_complexity = CRSum(rules)
    /\ \E c \in {[discussed_interests |-> NoneList, previous_hosts |-> NoneList],
                 [discussed_interests |-> Some(<<>>), previous_hosts |-> Some(<<>>)]} :
          /\ discussed_interests = c.discussed_interests
          /\ previous_hosts = c.previous_hosts
    /\ dinner_party \in SerialRosters
    /\ pc = "made"
    /\ current_round = 0
    /\ scores = <<>>
    /\ people = <<>>
    /\ round_num = 0
    /\ round_scores = <<>>
    /\ notes = NoNotes
    /\ total = NoTotal
    /\ host_log = <<>>
    /\ given = [scoring_complexity |-> scoring_complexity, rules |-> rules]
    /\ reused = FALSE
    /\ origin = "constructed"
    /\ final_scores = NoFinalScores
    /\ record = NoRecord
    /\ loaded = NoInstance
    /\ rng_draws = 0
    /\ ComposeUnused /\ PersonUnused /\ PartyUnused

\* record = g.to_dict()
SaveGame ==
    /\ pc = "made"
    /\ record' = GameScoring_to_dict
    /\ pc' = "saved"
    /\ UNCHANGED <<driverVars, composeVars, loaded, rng_draws, dinner_party, personVars, partyVars>>

\* GameScoring.from_dict(data, dinner_party), data being the saved record or a
\* foreign one
LoadGame ==
    /\ pc = "saved"
    /\ \E data \in {record} \cup
                   {[record EXCEPT !.rules = f] : f \in ForeignRecords(record.rules)} :
          LET r == LoadRules(data.rules, dinner_party)
              tried == [NoInstance EXCEPT !.kind = "game", !.data = data,
                                          !.intact = (data = record)]
          IN /\ rng_draws' = rng_draws + r.draws
             /\ IF r.error # "none"
                THEN /\ loaded' = [tried EXCEPT !.error = r.error]
                     /\ pc' = "load_raised"
                ELSE \E rs \in r.rules :
                        IF post_init(rs, data.scoring_complexity) = "error"
                        THEN /\ loaded' = [tried EXCEPT !.error = "post_init"]
                             /\ pc' = "load_raised"
                        ELSE /\ loaded' =
                                  [tried EXCEPT !.rules = rs,
                                      !.scoring_complexity = data.scoring_complexity,
                                      !.discussed_interests = data.discussed_interests,
                                      !.previous_hosts = data.previous_hosts,
                                      !.current_round = data.current_round,
                                      !.scores = data.scores]
                             /\ pc' = "loaded"
    /\ UNCHANGED <<driverVars, composeVars, record, dinner_party, personVars, partyVars>>

\* scoring_rule_from_dict(data, dinner_party) on one entry of the saved record,
\* or on a foreign one; loaded.data holds the entry alone
LoadRule ==
    /\ pc = "saved"
    /\ \E i \in 1..Len(record.rules) :
       \E data \in {record.rules[i]} \cup
                   {f[1] : f \in ForeignRecords(<<record.rules[i]>>)} :
          LET r == scoring_rule_from_dict(data, dinner_party)
              tried == [NoInstance EXCEPT !.kind = "rule",
                                          !.data = [NoRecord EXCEPT !.rules = <<data>>],
                                          !.intact = (data = record.rules[i])]
          IN /\ rng_draws' = rng_draws + r.draws
             /\ round_num' = i
             /\ IF r.error # "none"
                THEN /\ loaded' = [tried EXCEPT !.error = r.error]
                     /\ pc' = "load_raised"
                ELSE \E rule \in r.rules :
                        /\ loaded' = [tried EXCEPT !.rules = <<rule>>]
                        /\ pc' = "rule_loaded"
    /\ UNCHANGED <<rules, scoring_complexity, discussed_interests, previous_hosts,
                   current_round, scores, people, round_scores, notes, total,
                   host_log, given, reused, origin, final_scores,
                   composeVars, record, dinner_party, personVars, partyVars>>

\* score_all_rounds(ps) on the original and on the loaded instance; both are
\* reset when it returns
ScoreLoaded(ps) ==
    /\ pc = "loaded"
    /\ people' = ps
    /\ total' = PassFrom(rules, 1, ps, CleanContext)
    /\ loaded' = [loaded EXCEPT !.total = PassFrom(loaded.rules, 1, ps, CleanContext),
                                !.discussed_interests = reset.discussed_interests,
                                !.previous_hosts = reset.previous_hosts,
                                !.scores = reset.scores,
                                !.current_round = reset.current_round]
    /\ discussed_interests' = reset.discussed_interests
    /\ previous_hosts' = reset.previous_hosts
    /\ scores' = reset.scores
    /\ current_round' = reset.current_round
    /\ pc' = "compared"
    /\ UNCHANGED <<rules, scoring_complexity, round_num, round_scores, notes, host_log,
                   given, reused, origin, final_scores,
                   composeVars, record, rng_draws, dinner_party, personVars, partyVars>>

\* score_round(ps, context) of the original rule and of the loaded rule
ScoreLoadedRule(ps, c) ==
    /\ pc = "rule_loaded"
    /\ people' = ps
    /\ LET o == score_round(rules[round_num], ps, c.discussed_interests, c.previous_hosts)
       IN /\ round_scores' = o.scores
          /\ notes' = o.notes
          /\ pc' = IF o.raised THEN "rule_raised" ELSE "rule_compared"
    /\ loaded' = [loaded EXCEPT !.out = score_round(loaded.rules[1], ps,
                                                    c.discussed_interests, c.previous_hosts)]
    /\ UNCHANGED <<rules, scoring_complexity, discussed_interests, previous_hosts,
                   current_round, scores, round_num, total, host_log, given, reused,
                   origin, final_scores,
                   composeVars, record, rng_draws, dinner_party, personVars, partyVars>>

NextSerial ==
    \/ SaveGame
    \/ LoadGame
    \/ LoadRule
    \/ \E ps \in GuestLists : ScoreLoaded(ps)
    \/ \E ps \in GuestLists, c \in RoundContexts : ScoreLoadedRule(ps, c)

SpecSerial == InitSerial /\ [][NextSerial]_vars

----------------------------------------------------------------------------
(* Claims about the records, checked under SpecSerial *)

\* the rule this rule-level load started from
OriginalRule == rules[round_num]

\* C6: a rule loaded from the record its to_dict wrote is a rule of the same
\* variant that returns the same scores and the same metadata as the original
\* for every guest list and context, and a GameScoring loaded from the record
\* its to_dict wrote returns the same score_all_rounds total as the original.
C6_RoundTripScoresAlike ==
    /\ (loaded.kind = "rule" /\ loaded.intact) =>
          /\ loaded.error = "none"
          /\ loaded.rules[1].type = OriginalRule.type
          /\ pc = "rule_raised" => loaded.out.raised
          /\ pc = "rule_compared" =>
                /\ ~loaded.out.raised
                /\ loaded.out.scores = round_scores
                /\ loaded.out.notes = notes
    /\ (loaded.kind = "game" /\ loaded.intact) =>
          /\ loaded.error = "none"
          /\ pc = "compared" => loaded.total = total

\* C7: loading a rule from its record with any roster succeeds, the loaded
\* rule's interest, points_per_interest and bonus_points are the recorded
\* ones, and no draw was taken from the random source.
C7_LoadTakesNoDraw ==
    (loaded.kind = "rule" /\ loaded.intact) =>
        /\ loaded.error = "none"
        /\ loaded.rules[1].interest = OriginalRule.interest
        /\ loaded.rules[1].points_per_interest = OriginalRule.points_per_interest
        /\ loaded.rules[1].bonus_points = OriginalRule.bonus_points
        /\ rng_draws = 0

UnregisteredEntry(recs) ==
    \E i \in 1..Len(recs) : ~recs[i].has_type \/ recs[i].type \notin RegisteredTypes

\* C8: scoring_rule_from_dict on a record whose type is missing or not
\* registered ends in ValueError and returns no rule; GameScoring.from_dict on
\* a record with such an entry ends in an exception and returns no instance.
C8_UnknownTypeFails ==
    /\ (loaded.kind = "rule" /\ UnregisteredEntry(loaded.data.rules)) =>
          /\ pc = "load_raised"
          /\ loaded.error = "ValueError"
          /\ loaded.rules = <<>>
    /\ (loaded.kind = "game" /\ UnregisteredEntry(loaded.data.rules)) =>
          /\ pc = "load_raised"
          /\ loaded.error # "none"
          /\ loaded.rules = <<>>

\* a record of two entries, the first loaded with a draw, the second without
\* its type: GameScoring.from_dict ended in ValueError
C8_Witness ==
    /\ loaded.kind = "game" /\ Len(loaded.data.rules) = 2
    /\ loaded.data.rules[1].type = "NicheInterestsRule"
    /\ ~loaded.data.rules[2].has_type
    /\ loaded.error = "ValueError"
    /\ pc = "load_raised"

----------------------------------------------------------------------------
(* Person: construction *)

NoLevel == [some |-> FALSE, val |-> 0]

\* the comprehension keeping the entries with a level above 0
post_init_keeps_positive(interests) ==
    SelectSeq(interests, LAMBDA it : it.v.some /\ it.v.val > 0)

\* Person.__post_init__: {k: v for k, v in self.interests.items() if v is not None}
Person_post_init(interests) ==
    SelectSeq(interests, LAMBDA it : it.v.some)

MaxPersonInterests == 3

\* a level as the caller may pass it: None, or an integer from -1 up
PersonLevels == {NoLevel} \cup {Some(l) : l \in -1..MaxLevel}

\* every mapping of at most MaxPersonInterests interests, in every insertion order
PersonMappings ==
    {d \in SeqsUpTo({Item(k, v) : k \in InterestUniverse, v \in PersonLevels},
                    MaxPersonInterests) :
        \A i, j \in 1..Len(d) : d[i].k = d[j].k => i = j}

InitPerson ==
    /\ interests_arg \in PersonMappings
    /\ person = NoPerson
    /\ pc = "calling"
    /\ DriverUnused /\ ComposeUnused /\ SerialUnused /\ PartyUnused

\* Person(name, interests): the dataclass stores the fields, then __post_init__
MakePerson ==
    /\ pc = "calling"
    /\ person' = [name |-> <<1>>, interests |-> Person_post_init(interests_arg)]
    /\ pc' = "made"
    /\ UNCHANGED <<driverVars, composeVars, serialVars, interests_arg, partyVars>>

NextPerson == MakePerson

SpecPerson == InitPerson /\ [][NextPerson]_vars

----------------------------------------------------------------------------
(* Claims about Person, checked under SpecPerson *)

\* the entries of mapping d, as a set
Entries(d) == {d[i] : i \in 1..Len(d)}

\* a level that is neither null, zero nor negative
Wanted(it) == it.v.some /\ it.v.val > 0

----------------------------------------------------------------------------
(* DinnerParty.score_set *)

\* the comprehension looking every selected name up and failing on a name
\* that no person of the roster has
selected_people_strict(ps, sel) ==
    [raised |-> \E i \in 1..Len(sel) : \A j \in 1..Len(ps) : ps[j].name # sel[i],
     people |-> SelectSeq(ps, LAMBDA p : InSeq(p.name, sel))]

\* [person for person in self.people if person.name in selected_set]
selected_people(ps, sel) ==
    [raised |-> FALSE, people |-> SelectSeq(ps, LAMBDA p : InSeq(p.name, sel))]

\* all_interests[interest]: the levels of the selected people who hold it,
\* as the pair (len, sum)
RECURSIVE LevelLists(_, _)
LevelLists(items, acc) ==
    IF items = <<>> THEN acc
    ELSE LET old == Get(acc, Head(items).k, [len |-> 0, sum |-> 0])
         IN LevelLists(Tail(items),
                       Put(acc, Head(items).k,
                           [len |-> old.len + 1, sum |-> old.sum + Head(items).v]))

\* key=lambda x: (-len(x[1]), -sum(x[1]), x[0])
SetKeyLess(x, y) ==
    \/ (0 - x.v.len) < (0 - y.v.len)
    \/ x.v.len = y.v.len /\ (0 - x.v.sum) < (0 - y.v.sum)
    \/ x.v.len = y.v.len /\ x.v.sum = y.v.sum /\ StrLess(x.k, y.k)

TopInterests == 3

\* sorted(all_interests.items(), key=...)[:3]: the keys of a dict differ, so
\* the order is total and an item is in the slice when fewer than 3 precede it
top_3_interests(lists) ==
    SelectSeq(lists, LAMBDA x :
        Cardinality({j \in 1..Len(lists) : SetKeyLess(lists[j], x)}) < TopInterests)

RECURSIVE SumOfSums(_)
SumOfSums(lists) ==
    IF lists = <<>> THEN 0 ELSE Head(lists).v.sum + SumOfSums(Tail(lists))

\* the selected people scored by the party's composed rules
score_set_by_rules(ps, sel) ==
    PassFrom(rules, 1, selected_people(ps, sel).people, CleanContext)

\* DinnerParty.score_set(selected_set): the score, or nothing when it raised
score_set(ps, sel) ==
    LET chosen == selected_people(ps, sel)
    IN IF chosen.raised THEN NoTotal
       ELSE Some(SumOfSums(top_3_interests(LevelLists(AllItems(chosen.people), <<>>))))

Cab == <<3, 1, 2>>

\* the people a party is made of: four interests among them, so that the
\* slice of three leaves one out; a person without interests
PartyRoster ==
    Roster \cup {[name |-> <<2, 3>>, interests |-> <<Item(Cab, 2), Item(Art, 1)>>]}

MaxPartyPeople == 3

PartyPeople == {ps \in SeqsUpTo(PartyRoster, MaxPartyPeople) : DistinctNames(ps)}

\* the names an answer may hold: names of the roster and names of nobody
UnknownNames == {<<3, 3>>, <<1, 1>>}

AnswerNames == {p.name : p \in PartyRoster} \cup UnknownNames

MaxSelected == 3

\* rule lists random_scoring_rules may have composed for the party
PartyRuleLists ==
    {<<SingleInterestRule(Art)>>, <<EachPersonSpeaksRule, NicheInterestsRule(MinBonusPoints)>>}

\* DinnerParty(...): the people, and the rules __post_init__ composed (the
\* party's random_scoring_rules.rules)
InitParty ==
    /\ party_people \in PartyPeople
    /\ rules \in PartyRuleLists
    /\ selected_set = <<>>
    /\ set_score = NoTotal
    /\ set_size = 0
    /\ stored_scores = <<>>
    /\ target_score = 0
    /\ statistics = NoStatistics
    /\ pc = "party"
    /\ scoring_complexity = 0
    /\ discussed_interests = NoneList
    /\ previous_hosts = NoneList
    /\ current_round = 0
    /\ scores = <<>>
    /\ people = <<>>
    /\ round_num = 0
    /\ round_scores = <<>>
    /\ notes = NoNotes
    /\ total = NoTotal
    /\ host_log = <<>>
    /\ given = [scoring_complexity |-> 0, rules |-> <<>>]
    /\ reused = FALSE
    /\ origin = "constructed"
    /\ final_scores = NoFinalScores
    /\ ComposeUnused /\ SerialUnused /\ PersonUnused

\* dinner_party.score_set(selected_set)
ScoreSet(sel) ==
    /\ pc = "party"
    /\ selected_set' = sel
    /\ set_score' = score_set(party_people, sel)
    /\ pc' = IF score_set(party_people, sel).some THEN "set_scored" ELSE "set_raised"
    /\ UNCHANGED <<driverVars, composeVars, serialVars, personVars, party_people,
                   set_size, stored_scores, target_score, statistics>>

\* DinnerParty.from_dict on the party's record: the same people, and rules
\* composed anew by __post_init__
ReloadParty ==
    /\ \E rs \in PartyRuleLists \ {rules} : rules' = rs
    /\ UNCHANGED <<scoring_complexity, discussed_interests, previous_hosts,
                   current_round, scores, people, round_num, round_scores, notes,
                   total, host_log, given, reused, origin, final_scores, pc,
                   composeVars, serialVars, personVars, partyVars>>

NextParty ==
    \/ \E sel \in SeqsUpTo(AnswerNames, MaxSelected) : ScoreSet(sel)
    \/ ReloadParty

SpecParty == InitParty /\ [][NextParty]_vars

----------------------------------------------------------------------------
(* Claims about score_set, checked under SpecParty *)

\* the names of the list that some person of the roster has
KnownOnly(sel, ps) == SelectSeq(sel, LAMBDA n : \E j \in 1..Len(ps) : ps[j].name = n)

\* C11: score_set on a list of names with names that nobody of the roster has
\* does not fail, and returns what it returns for the list without those names.
C11_UnknownNamesIgnored ==
    /\ pc # "set_raised"
    /\ pc = "set_scored" =>
          /\ set_score.some
          /\ set_score = score_set(party_people, KnownOnly(selected_set, party_people))

\* a list with a name of nobody and two names of the roster has been scored,
\* the selected people holding more interests than the slice takes
C11_Witness ==
    /\ pc = "set_scored" /\ set_score.val > 0
    /\ Len(selected_set) = 3
    /\ Len(KnownOnly(selected_set, party_people)) = 2
    /\ Len(LevelLists(AllItems(selected_people(party_people, selected_set).people), <<>>)) > 3

\* the names of the list that some person of the roster has, as a set
KnownNames(sel, ps) == {sel[i] : i \in {j \in 1..Len(sel) : \E g \in 1..Len(ps) : ps[g].name = sel[j]}}

\* C30: what score_set returned for a list of names is what it returns for
\* every list made of names of that list in which the same names of the
\* roster occur, in any order and any number of times, and what it returns
\* for the same list on the party once its rules have been composed anew.
C30_ScoreSetIgnoresRules ==
    /\ [](pc = "set_scored" =>
            \A sel \in SeqsUpTo({selected_set[i] : i \in 1..Len(selected_set)}, MaxSelected) :
                KnownNames(sel, party_people) = KnownNames(selected_set, party_people)
                    => score_set(party_people, sel) = set_score)
    /\ [][(pc = "set_scored" /\ rules' # rules) =>
             score_set(party_people', selected_set') = set_score']_vars

\* a list naming one guest twice and another once has been scored, and the
\* party's rules were composed anew afterwards
C30_Witness ==
    /\ pc = "set_scored" /\ set_score.val > 0
    /\ Len(selected_set) = 3
    /\ Cardinality(KnownNames(selected_set, party_people)) = 2
    /\ Len(KnownOnly(selected_set, party_people)) = 3
    /\ rules = <<SingleInterestRule(Art)>>

----------------------------------------------------------------------------
(* DinnerParty: the stored scores and get_score_statistics.  SpecStats      *)
(* starts from a party as __post_init__ or from_dict leaves it and scores   *)
(* one answer as score_answer does.                                         *)

RECURSIVE SumSeq(_)
SumSeq(s) == IF s = <<>> THEN 0 ELSE Head(s) + SumSeq(Tail(s))

\* x put into the descending list s
RECURSIVE InsertDescending(_, _)
InsertDescending(x, s) ==
    IF s = <<>> THEN <<x>>
    ELSE IF x >= Head(s) THEN <<x>> \o s
    ELSE <<Head(s)>> \o InsertDescending(x, Tail(s))

\* list.sort(reverse=True)
RECURSIVE SortDescending(_)
SortDescending(s) ==
    IF s = <<>> THEN <<>> ELSE InsertDescending(Head(s), SortDescending(Tail(s)))

\* min(stored_scores) and max(stored_scores) of a list sorted descending or not
MinOf(s) == CHOOSE m \in {s[i] : i \in 1..Len(s)} : \A i \in 1..Len(s) : m <= s[i]
MaxOf(s) == CHOOSE m \in {s[i] : i \in 1..Len(s)} : \A i \in 1..Len(s) : s[i] <= m

Kth == 3

\* _calculate_target_score on the sets the draws gave: the scores of the
\* sampled sets, sorted descending, and the kth of them (the least when
\* there are fewer than kth)
_calculate_target_score(ps, samples) ==
    LET sorted == SortDescending([i \in 1..Len(samples) |-> score_set(ps, samples[i]).val])
    IN [stored_scores |-> sorted,
        target_score |-> IF Kth <= Len(sorted) THEN sorted[Kth] ELSE MinOf(sorted)]

\* get_score_statistics(score): ValueError on no stored scores; the quotients
\* are kept as pairs of integers (avg_score is sum / len, so score / avg_score
\* is score * len over sum); rank_normalized_score is norm.ppf of
\* rank_percentile
get_score_statistics(stored, score) ==
    IF stored = <<>> THEN [raised |-> TRUE, stats |-> NoStatistics]
    ELSE LET n == Len(stored)
             ranking == Cardinality({i \in 1..n : stored[i] > score}) + 1
             max_score == MaxOf(stored)
         IN [raised |-> FALSE,
             stats |-> [percentile |-> Ratio(Cardinality({i \in 1..n : stored[i] <= score}), n),
                        ranking |-> ranking,
                        percent_of_max |-> IF max_score > 0 THEN Ratio(score, max_score)
                                           ELSE Ratio(1, 1),
                        normalized_score |-> IF SumSeq(stored) > 0
                                             THEN Ratio(score * n, SumSeq(stored))
                                             ELSE Ratio(1, 1),
                        rank_percentile |-> Ratio(2 * (n - ranking) + 1, 2 * n + 2)]]

\* names[:n]
Prefix(s, n) == SubSeq(s, 1, IF Len(s) < n THEN Len(s) ELSE n)

MaxSamples == 3

\* random.sample(names, set_size): set_size different names in any order
RandomSets(ps, k) ==
    {s \in [1..k -> {ps[i].name : i \in 1..Len(ps)}] : \A i, j \in 1..k : s[i] = s[j] => i = j}

StatsPeople == {ps \in PartyPeople : ps # <<>>}

\* the party as __post_init__ made it, the stored scores being those of the
\* sets its draws gave; or as from_dict made it from a record whose
\* stored_scores list is empty
InitStats ==
    /\ party_people \in StatsPeople
    /\ set_size \in 1..Len(party_people)
    /\ \/ \E samples \in SeqsUpTo(RandomSets(party_people, set_size), MaxSamples) \ {<<>>} :
             LET t == _calculate_target_score(party_people, samples)
             IN stored_scores = t.stored_scores /\ target_score = t.target_score
       \/ \E samples \in SeqsUpTo(RandomSets(party_people, set_size), MaxSamples) \ {<<>>} :
             /\ stored_scores = <<>>
             /\ target_score = _calculate_target_score(party_people, samples).target_score
    /\ selected_set = <<>>
    /\ set_score = NoTotal
    /\ statistics = NoStatistics
    /\ pc = "party"
    /\ DriverUnused /\ ComposeUnused /\ SerialUnused /\ PersonUnused

\* score_answer: the first set_size names of the answer are scored and the
\* score is ranked against the stored scores
ScoreAnswer(names) ==
    /\ pc = "party"
    /\ LET sel == Prefix(names, set_size)
           score == score_set(party_people, sel)
           st == get_score_statistics(stored_scores, score.val)
       IN /\ selected_set' = sel
          /\ set_score' = score
          /\ statistics' = st.stats
          /\ pc' = IF st.raised THEN "stats_raised" ELSE "stats_returned"
    /\ UNCHANGED <<driverVars, composeVars, serialVars, personVars, party_people,
                   set_size, stored_scores, target_score>>

NextStats == \E names \in SeqsUpTo(AnswerNames, MaxSelected) : ScoreAnswer(names)

SpecStats == InitStats /\ [][NextStats]_vars

----------------------------------------------------------------------------
(* Claims about the statistics, checked under SpecStats *)

InUnitInterval(r) == 0 <= r.num /\ r.num <= r.den /\ r.den > 0

\* C26: with stored scores, get_score_statistics returns a percentile in
\* 0..1, a ranking that is 1 exactly when no stored score is higher than the
\* candidate, and a percent_of_max in 0..1 (the candidate is at most the
\* maximum stored score it is divided by); with no stored scores it raises.
C26_StatisticsInRange ==
    /\ pc = "stats_returned" =>
          /\ stored_scores # <<>>
          /\ InUnitInterval(statistics.percentile)
          /\ statistics.ranking >= 1
          /\ statistics.ranking = 1 <=>
                \A i \in 1..Len(stored_scores) : stored_scores[i] <= set_score.val
          /\ InUnitInterval(statistics.percent_of_max)
    /\ (pc \in {"stats_returned", "stats_raised"} /\ stored_scores = <<>>) =>
          pc = "stats_raised"

====
